---- MODULE Spec2Model ----
(***************************************************************************)
(* A model of the store-management back office (FastAPI routers over a     *)
(* relational database).  The database tables are the state; every HTTP    *)
(* handler is one action that reads the tables, possibly writes them, and  *)
(* leaves its response in resp.                                            *)
(*                                                                         *)
(* Conventions                                                             *)
(*   - NULL (0) stands for SQL NULL / Python None in nullable integer      *)
(*     columns; row ids start at 1.                                        *)
(*   - A nullable boolean column holds "true", "false" or "null".          *)
(*   - A table is a function from its id universe to rows; a row whose     *)
(*     present field is FALSE is not stored.                               *)
(*   - SQL comparisons are three-valued: a comparison with NULL selects    *)
(*     nothing, except that SQLAlchemy renders  column == None  as         *)
(*     column IS NULL.                                                     *)
(***************************************************************************)
EXTENDS Integers, Sequences, FiniteSets, TLC

NULL == 0

\* ------------------------------------------------------------------ bounds
MaxSkip == 2
MaxLimit == 2
MaxTime == 2

DeptIds == {1, 2}
EmpIds == {1, 2}
UserIds == {1, 2}
ComplaintIds == {1}
PreorderIds == {1}
AnnouncementIds == {1, 2}

Roles == {"admin", "manager", "staff"}
NullableDept == DeptIds \cup {NULL}
NullableEmp == EmpIds \cup {NULL}
Severities == {"medium", "high"}
PreorderStatuses == {"pending", "completed"}
ComplaintStatuses == {"open", "in_progress", "resolved"}
NullableBool == {"true", "false", "null"}

VARIABLES
    users,        \* users table
    employees,    \* employees table
    complaints,   \* customer_complaints table
    preorders,    \* pre_orders table
    announcements, \* announcements table
    departments,  \* departments table
    now,          \* the wall clock read by datetime.now()
    resp,         \* the response of the last request
    tasks,        \* tasks table
    inventory_requests,          \* inventory_requests table
    inventory_request_updates,   \* inventory_request_updates table (the audit log)
    announcement_reads,          \* announcement_reads table
    temperature_monitoring_points, \* temperature_monitoring_points table
    temperature_logs,            \* temperature_logs table
    temperature_violations,      \* temperature_violations table
    equipment,    \* equipment table
    inflight,     \* requests that have run their check and not yet their write
    training_types,              \* training_types table
    training_requirements,       \* training_requirements table
    employee_training_records,   \* employee_training_records table
    reminders,                   \* reminders table
    equipment_maintenance        \* equipment_maintenance table

\* The tables of the task, inventory, temperature and equipment routers, the
\* read receipts, and the requests in flight.
backoffice == <<tasks, inventory_requests, inventory_request_updates,
                announcement_reads, temperature_monitoring_points,
                temperature_logs, temperature_violations, equipment, inflight>>

\* The tables of the training and reminder routers and the maintenance
\* records of the equipment router.
records == <<training_types, training_requirements, employee_training_records,
             reminders, equipment_maintenance>>

vars == <<users, employees, complaints, preorders, announcements, departments, now, resp,
          backoffice, records>>

\* ----------------------------------------------------------------- helpers
Min(a, b) == IF a < b THEN a ELSE b

\* The ids of the stored rows of a table.
Stored(table) == {i \in DOMAIN table : table[i].present}

\* column == value in a WHERE clause with a non-NULL Python value: a NULL
\* column compares to NULL (unknown) and the row is not selected.
SqlEq(col, val) == col # NULL /\ col = val

\* column == value where the Python value may be None: SQLAlchemy renders
\* `column == None` as `column IS NULL`.
SqlEqOrIsNull(col, val) == IF val = NULL THEN col = NULL ELSE SqlEq(col, val)

\* The ids of a set in ascending order.
RECURSIVE AscSeq(_)
AscSeq(S) ==
    IF S = {} THEN <<>>
    ELSE LET m == CHOOSE x \in S : \A y \in S : x <= y
         IN <<m>> \o AscSeq(S \ {m})

Reverse(s) == [i \in 1..Len(s) |-> s[Len(s) + 1 - i]]

\* ORDER BY the default sort column, asc or desc (rows are created in id
\* order, so created_at orders as id does).
Ordered(S, order) == IF order = "asc" THEN AscSeq(S) ELSE Reverse(AscSeq(S))

\* OFFSET without the LIMIT.
OffsetLimit_Unlimited(s, skip, limit) == SubSeq(s, skip + 1, Len(s))

\* query.offset(skip).limit(limit) over an ordered result.
OffsetLimit(s, skip, limit) ==
    SubSeq(s, skip + 1, Min(Len(s), skip + limit))

SeqToSet(s) == {s[i] : i \in 1..Len(s)}

\* ------------------------------------------------------------------- rows
NoUser == [present |-> FALSE, role |-> "staff", department_id |-> NULL,
           employee_id |-> NULL, is_active |-> FALSE, password_hash |-> <<"hash", 0>>]

NoEmployee == [present |-> FALSE, department_id |-> NULL, status |-> "inactive",
               position |-> "clerk"]

\* The columns of customer_complaints that a filter, a guard or a derived
\* effect reads (the free-text columns and reported_by are left out).
NoComplaint == [present |-> FALSE, department_involved |-> NULL,
                severity |-> "medium", is_private |-> "false",
                assigned_to |-> NULL, status |-> "open", resolved_at |-> NULL]

\* The principal: dict(user._mapping) of the users row the token names.
Principal(uid) == [id |-> uid] @@ users[uid]

\* --------------------------------------------------------------- responses
NoBody == [kind |-> "none"]

\* A response: the handler, the caller, the id in the path (NULL for a
\* collection), the HTTP status and the JSON body.
Response(op, uid, target, status, body) ==
    [op |-> op, uid |-> uid, principal |-> Principal(uid), target |-> target,
     status |-> status, body |-> body]

NoResponse ==
    [op |-> "none", uid |-> NULL, principal |-> [id |-> NULL] @@ NoUser,
     target |-> NULL, status |-> 0, body |-> NoBody]

\* ------------------------------------------------------------ dependencies
\* The dependency without its is_active test.
IsActive_Unchecked(uid) == users[uid].present

\* get_current_active_user: a valid token of a stored user whose is_active
\* is false (or NULL) is refused with 400 "Inactive user".
IsActive(uid) == users[uid].present /\ users[uid].is_active

InactiveStatus == 400

\* admin_only / manager_or_admin: 403 unless the role matches.
AdminOnly(p) == p.role = "admin"

ManagerOrAdmin(p) == p.role \in {"manager", "admin"}

\* employees.position ILIKE '%manager%' OR ILIKE '%lead%'.
PositionMatches(position) ==
    position \in {"department manager", "team lead"}

\* The employees the auto-assignment query selects from (LIMIT 1, no ORDER
\* BY: the database returns any one of them).
DepartmentManagers(dept) ==
    {e \in Stored(employees) :
        /\ SqlEq(employees[e].department_id, dept)
        /\ employees[e].status = "active"
        /\ PositionMatches(employees[e].position)}

\* -------------------------------------------------------------- complaints
\* The role-based WHERE clause of get_complaints (applied alike to the
\* base query and to the count query).
ComplaintListFilter(p, c) ==
    IF p.role = "admin" THEN TRUE
    ELSE IF p.role = "manager" /\ p.department_id # NULL
         THEN SqlEq(c.department_involved, p.department_id)
    ELSE /\ SqlEqOrIsNull(c.department_involved, p.department_id)
         /\ c.severity # "high"
         /\ c.is_private = "false"

\* The caller-supplied filters of get_complaints ("" and NULL: not given).
ComplaintCallerFilter(p, c, f) ==
    /\ f.status # "" => c.status = f.status
    /\ f.severity # "" => c.severity = f.severity
    /\ (f.department_involved # NULL /\ p.role = "admin")
          => SqlEq(c.department_involved, f.department_involved)

NoFilter == [status |-> "", severity |-> "", department_involved |-> NULL]

ComplaintsSelected(p, f) ==
    {i \in Stored(complaints) :
        ComplaintListFilter(p, complaints[i]) /\ ComplaintCallerFilter(p, complaints[i], f)}

\* The pagination envelope every list endpoint returns.
Envelope(items, total, skip, limit) ==
    [kind |-> "list", items |-> items, total |-> total, limit |-> limit,
     offset |-> skip, has_more |-> (skip + limit) < total]

\* The access check of get_complaint (Python ==: None == None is true).
ComplaintDetailAllowed(p, c) ==
    IF p.role = "admin" THEN TRUE
    ELSE IF p.role = "manager" /\ p.department_id = c.department_involved THEN TRUE
    ELSE IF p.department_id = c.department_involved
         THEN ~(c.is_private = "true" \/ c.severity = "high")
    ELSE FALSE

\* get_complaint as the other handlers call it: the response for complaint
\* cid read from table tbl.
ComplaintFetch(op, uid, cid, tbl) ==
    IF ~tbl[cid].present THEN Response(op, uid, cid, 404, NoBody)
    ELSE IF ~ComplaintDetailAllowed(Principal(uid), tbl[cid])
         THEN Response(op, uid, cid, 403, NoBody)
    ELSE Response(op, uid, cid, 200, [kind |-> "complaint", row |-> tbl[cid]])

\* The permission check of update_complaint and update_complaint_status.
ComplaintUpdateAllowed(p, c) ==
    LET is_admin == p.role = "admin"
        is_manager == p.role = "manager" /\ p.department_id = c.department_involved
        is_handler == p.id = c.assigned_to
    IN is_admin \/ is_manager \/ is_handler

\* The permission check of assign_complaint.
ComplaintAssignAllowed(p, c) ==
    p.role \in {"admin", "manager"} \/ p.department_id = c.department_involved

\* The permission check of delete_complaint: its manager_or_admin dependency.
ComplaintDeleteAllowed(p, c) == ManagerOrAdmin(p)

Refused(op, uid, target) ==
    /\ resp' = Response(op, uid, target, InactiveStatus, NoBody)
    /\ UNCHANGED <<users, employees, complaints, preorders, announcements, departments, now, backoffice, records>>

Reply(r) ==
    /\ resp' = r
    /\ UNCHANGED <<users, employees, complaints, preorders, announcements, departments, now, backoffice, records>>

get_complaints(uid, skip, limit, f, order) ==
    IF ~IsActive(uid) THEN Refused("get_complaints", uid, NULL)
    ELSE LET p == Principal(uid)
             selected == ComplaintsSelected(p, f)
             total_count == Cardinality(selected)
             page == OffsetLimit(Ordered(selected, order), skip, limit)
         IN Reply(Response("get_complaints", uid, NULL, 200,
                           Envelope(page, total_count, skip, limit) @@ [filter |-> f]))

get_complaint(uid, cid) ==
    IF ~IsActive(uid) THEN Refused("get_complaint", uid, cid)
    ELSE Reply(ComplaintFetch("get_complaint", uid, cid, complaints))

\* The smallest unused id (the table's serial primary key).
NextId(table) == CHOOSE i \in DOMAIN table :
                    ~table[i].present /\ \A j \in DOMAIN table : ~table[j].present => i <= j

HasRoom(table) == \E i \in DOMAIN table : ~table[i].present

\* An applied write followed by the handler's closing get_complaint call.
ComplaintWrite(op, uid, cid, row) ==
    /\ complaints' = [complaints EXCEPT ![cid] = row]
    /\ resp' = ComplaintFetch(op, uid, cid, complaints')
    /\ UNCHANGED <<users, employees, preorders, announcements, departments, now, backoffice, records>>

create_complaint(uid, dept, sev, priv, assignee, st) ==
    IF ~IsActive(uid) THEN Refused("create_complaint", uid, NULL)
    ELSE /\ HasRoom(complaints)
         /\ LET base == [present |-> TRUE, department_involved |-> dept,
                         severity |-> sev,
                         is_private |-> IF priv \/ sev = "high" THEN "true" ELSE "false",
                         assigned_to |-> assignee, status |-> st,
                         resolved_at |-> NULL]
                cid == NextId(complaints)
            IN IF dept # NULL /\ assignee = NULL /\ DepartmentManagers(dept) # {}
               THEN \E m \in DepartmentManagers(dept) :
                        ComplaintWrite("create_complaint", uid, cid,
                                       [base EXCEPT !.assigned_to = m])
               ELSE ComplaintWrite("create_complaint", uid, cid, base)

\* A ComplaintUpdate body: a field left at NULL, "" or "null" was not
\* provided (or provided as null) and is skipped by the handler.
NoUpdate == [department_involved |-> NULL, severity |-> "", status |-> "",
             assigned_to |-> NULL, is_private |-> "null"]

update_complaint(uid, cid, u) ==
    IF ~IsActive(uid) THEN Refused("update_complaint", uid, cid)
    ELSE IF ~complaints[cid].present
         THEN Reply(Response("update_complaint", uid, cid, 404, NoBody))
    ELSE IF ~ComplaintUpdateAllowed(Principal(uid), complaints[cid])
         THEN Reply(Response("update_complaint", uid, cid, 403, NoBody))
    ELSE LET c == complaints[cid]
             provided == [c EXCEPT
                 !.department_involved =
                     IF u.department_involved # NULL THEN u.department_involved ELSE @,
                 !.severity = IF u.severity # "" THEN u.severity ELSE @,
                 !.status = IF u.status # "" THEN u.status ELSE @,
                 !.assigned_to = IF u.assigned_to # NULL THEN u.assigned_to ELSE @,
                 !.is_private = IF u.is_private # "null" THEN u.is_private ELSE @,
                 !.resolved_at = IF u.status = "resolved" THEN now ELSE @]
         IN /\ u # NoUpdate
            /\ IF /\ u.department_involved # NULL
                  /\ u.assigned_to = NULL
                  /\ DepartmentManagers(u.department_involved) # {}
               THEN \E m \in DepartmentManagers(u.department_involved) :
                        ComplaintWrite("update_complaint", uid, cid,
                                       [provided EXCEPT !.assigned_to = m])
               ELSE ComplaintWrite("update_complaint", uid, cid, provided)

\* status_update is a raw dict: st = "<missing>" is a body without "status".
update_complaint_status(uid, cid, st) ==
    IF ~IsActive(uid) THEN Refused("update_complaint_status", uid, cid)
    ELSE IF ~complaints[cid].present
         THEN Reply(Response("update_complaint_status", uid, cid, 404, NoBody))
    ELSE IF ~ComplaintUpdateAllowed(Principal(uid), complaints[cid])
         THEN Reply(Response("update_complaint_status", uid, cid, 403, NoBody))
    ELSE IF st = "<missing>"
         THEN Reply(Response("update_complaint_status", uid, cid, 400, NoBody))
    ELSE ComplaintWrite("update_complaint_status", uid, cid,
             [complaints[cid] EXCEPT
                 !.status = st,
                 !.resolved_at = IF st = "resolved" THEN now ELSE @])

\* assignment is a raw dict: given says whether it holds "assigned_to" (an
\* employee id or null).
assign_complaint(uid, cid, given, assignee) ==
    IF ~IsActive(uid) THEN Refused("assign_complaint", uid, cid)
    ELSE IF ~complaints[cid].present
         THEN Reply(Response("assign_complaint", uid, cid, 404, NoBody))
    ELSE IF ~ComplaintAssignAllowed(Principal(uid), complaints[cid])
         THEN Reply(Response("assign_complaint", uid, cid, 403, NoBody))
    ELSE IF ~given
         THEN Reply(Response("assign_complaint", uid, cid, 400, NoBody))
    ELSE ComplaintWrite("assign_complaint", uid, cid,
             [complaints[cid] EXCEPT
                 !.assigned_to = assignee,
                 !.status = IF @ = "open" THEN "in_progress" ELSE @])

\* privacy_update is a raw dict holding "is_private" (true, false or null);
\* priv = "<missing>" is a body without it.
update_complaint_privacy(uid, cid, priv) ==
    IF ~IsActive(uid) THEN Refused("update_complaint_privacy", uid, cid)
    ELSE IF ~ManagerOrAdmin(Principal(uid))
         THEN Reply(Response("update_complaint_privacy", uid, cid, 403, NoBody))
    ELSE IF ~complaints[cid].present
         THEN Reply(Response("update_complaint_privacy", uid, cid, 404, NoBody))
    ELSE IF priv = "<missing>"
         THEN Reply(Response("update_complaint_privacy", uid, cid, 400, NoBody))
    ELSE ComplaintWrite("update_complaint_privacy", uid, cid,
             [complaints[cid] EXCEPT !.is_private = priv])

delete_complaint(uid, cid) ==
    IF ~IsActive(uid) THEN Refused("delete_complaint", uid, cid)
    ELSE IF ~ComplaintDeleteAllowed(Principal(uid), complaints[cid])
         THEN Reply(Response("delete_complaint", uid, cid, 403, NoBody))
    ELSE IF ~complaints[cid].present
         THEN Reply(Response("delete_complaint", uid, cid, 404, NoBody))
    ELSE /\ complaints' = [complaints EXCEPT ![cid] = NoComplaint]
         /\ resp' = Response("delete_complaint", uid, cid, 200, [kind |-> "message"])
         /\ UNCHANGED <<users, employees, preorders, announcements, departments, now, backoffice, records>>

\* ---------------------------------------------------------------- pre-orders
NoPreorder == [present |-> FALSE, target_department |-> NULL, assigned_to |-> NULL,
               requested_by |-> NULL, status |-> "pending", completed_at |-> NULL]

\* The role-based WHERE clause of get_preorders (same on the count query).
PreorderListFilter(p, o) ==
    IF p.role = "admin" THEN TRUE
    ELSE IF p.role = "manager" /\ p.department_id # NULL
         THEN SqlEq(o.target_department, p.department_id)
    ELSE /\ SqlEqOrIsNull(o.target_department, p.department_id)
         /\ SqlEqOrIsNull(o.assigned_to, p.employee_id)

\* The caller's filters of get_preorders; an absent filter is "" or NULL.
PreorderCallerFilter(p, o, f) ==
    /\ f.status # "" => o.status = f.status
    /\ (f.target_department # NULL /\ p.role = "admin")
          => SqlEq(o.target_department, f.target_department)
    /\ f.assigned_to # NULL => SqlEq(o.assigned_to, f.assigned_to)

NoPreorderFilter == [status |-> "", target_department |-> NULL, assigned_to |-> NULL]

PreordersSelected(p, f) ==
    {i \in Stored(preorders) :
        PreorderListFilter(p, preorders[i]) /\ PreorderCallerFilter(p, preorders[i], f)}

\* The access check of get_preorder, in Python equality (None == None).
PreorderDetailAllowed(p, o) ==
    IF p.role = "admin" THEN TRUE
    ELSE IF p.role = "manager" /\ p.department_id = o.target_department THEN TRUE
    ELSE IF p.employee_id = o.assigned_to THEN TRUE
    ELSE FALSE

PreorderFetch(op, uid, oid, tbl) ==
    IF ~tbl[oid].present THEN Response(op, uid, oid, 404, NoBody)
    ELSE IF ~PreorderDetailAllowed(Principal(uid), tbl[oid])
         THEN Response(op, uid, oid, 403, NoBody)
    ELSE Response(op, uid, oid, 200, [kind |-> "preorder", row |-> tbl[oid]])

\* The permission check of update_preorder and update_preorder_status.
PreorderUpdateAllowed(p, o) ==
    LET is_admin == p.role = "admin"
        is_manager == p.role = "manager" /\ p.department_id = o.target_department
        is_assigned == p.employee_id = o.assigned_to
    IN is_admin \/ is_manager \/ is_assigned

\* The permission check of assign_preorder.
PreorderAssignAllowed(p, o) ==
    LET is_admin == p.role = "admin"
        is_manager == p.role = "manager" /\ p.department_id = o.target_department
        is_requestor == p.employee_id = o.requested_by
    IN is_admin \/ is_manager \/ is_requestor

\* The permission check of delete_preorder: its manager_or_admin dependency.
PreorderDeleteAllowed(p, o) == ManagerOrAdmin(p)

get_preorders(uid, skip, limit, f, order) ==
    IF ~IsActive(uid) THEN Refused("get_preorders", uid, NULL)
    ELSE LET p == Principal(uid)
             selected == PreordersSelected(p, f)
             total_count == Cardinality(selected)
             page == OffsetLimit(Ordered(selected, order), skip, limit)
         IN Reply(Response("get_preorders", uid, NULL, 200,
                           Envelope(page, total_count, skip, limit) @@ [filter |-> f]))

get_preorder(uid, oid) ==
    IF ~IsActive(uid) THEN Refused("get_preorder", uid, oid)
    ELSE Reply(PreorderFetch("get_preorder", uid, oid, preorders))

\* An applied write followed by the handler's closing get_preorder call.
PreorderWrite(op, uid, oid, row) ==
    /\ preorders' = [preorders EXCEPT ![oid] = row]
    /\ resp' = PreorderFetch(op, uid, oid, preorders')
    /\ UNCHANGED <<users, employees, complaints, announcements, departments, now, backoffice, records>>

create_preorder(uid, dept, requester, assignee, st) ==
    IF ~IsActive(uid) THEN Refused("create_preorder", uid, NULL)
    ELSE /\ HasRoom(preorders)
         /\ LET base == [present |-> TRUE, target_department |-> dept,
                         assigned_to |-> assignee,
                         requested_by |-> IF requester # NULL THEN requester
                                          ELSE users[uid].employee_id,
                         status |-> st, completed_at |-> NULL]
                oid == NextId(preorders)
            IN IF dept # NULL /\ assignee = NULL /\ DepartmentManagers(dept) # {}
               THEN \E m \in DepartmentManagers(dept) :
                       PreorderWrite("create_preorder", uid, oid,
                                     [base EXCEPT !.assigned_to = m])
               ELSE PreorderWrite("create_preorder", uid, oid, base)

\* A PreOrderUpdate body: a field left at NULL or "" was not provided (or
\* provided as null) and is skipped by the handler.
NoPreorderUpdate == [target_department |-> NULL, requested_by |-> NULL,
                     assigned_to |-> NULL, status |-> ""]

update_preorder(uid, oid, u) ==
    IF ~IsActive(uid) THEN Refused("update_preorder", uid, oid)
    ELSE IF ~preorders[oid].present
         THEN Reply(Response("update_preorder", uid, oid, 404, NoBody))
    ELSE IF ~PreorderUpdateAllowed(Principal(uid), preorders[oid])
         THEN Reply(Response("update_preorder", uid, oid, 403, NoBody))
    ELSE LET o == preorders[oid]
             provided == [o EXCEPT
                 !.target_department =
                     IF u.target_department # NULL THEN u.target_department ELSE @,
                 !.requested_by = IF u.requested_by # NULL THEN u.requested_by ELSE @,
                 !.assigned_to = IF u.assigned_to # NULL THEN u.assigned_to ELSE @,
                 !.status = IF u.status # "" THEN u.status ELSE @,
                 !.completed_at = IF u.status = "completed" THEN now ELSE @]
         IN /\ u # NoPreorderUpdate
            /\ IF /\ u.target_department # NULL
                  /\ u.assigned_to = NULL
                  /\ DepartmentManagers(u.target_department) # {}
               THEN \E m \in DepartmentManagers(u.target_department) :
                        PreorderWrite("update_preorder", uid, oid,
                                      [provided EXCEPT !.assigned_to = m])
               ELSE PreorderWrite("update_preorder", uid, oid, provided)

update_preorder_status(uid, oid, st) ==
    IF ~IsActive(uid) THEN Refused("update_preorder_status", uid, oid)
    ELSE IF ~preorders[oid].present
         THEN Reply(Response("update_preorder_status", uid, oid, 404, NoBody))
    ELSE IF ~PreorderUpdateAllowed(Principal(uid), preorders[oid])
         THEN Reply(Response("update_preorder_status", uid, oid, 403, NoBody))
    ELSE IF st = "<missing>"
         THEN Reply(Response("update_preorder_status", uid, oid, 400, NoBody))
    ELSE PreorderWrite("update_preorder_status", uid, oid,
             [preorders[oid] EXCEPT !.status = st,
                                    !.completed_at = IF st = "completed" THEN now ELSE @])

assign_preorder(uid, oid, given, assignee) ==
    IF ~IsActive(uid) THEN Refused("assign_preorder", uid, oid)
    ELSE IF ~preorders[oid].present
         THEN Reply(Response("assign_preorder", uid, oid, 404, NoBody))
    ELSE IF ~PreorderAssignAllowed(Principal(uid), preorders[oid])
         THEN Reply(Response("assign_preorder", uid, oid, 403, NoBody))
    ELSE IF ~given
         THEN Reply(Response("assign_preorder", uid, oid, 400, NoBody))
    ELSE PreorderWrite("assign_preorder", uid, oid,
             [preorders[oid] EXCEPT !.assigned_to = assignee])

delete_preorder(uid, oid) ==
    IF ~IsActive(uid) THEN Refused("delete_preorder", uid, oid)
    ELSE IF ~PreorderDeleteAllowed(Principal(uid), preorders[oid])
         THEN Reply(Response("delete_preorder", uid, oid, 403, NoBody))
    ELSE IF ~preorders[oid].present
         THEN Reply(Response("delete_preorder", uid, oid, 404, NoBody))
    ELSE /\ preorders' = [preorders EXCEPT ![oid] = NoPreorder]
         /\ resp' = Response("delete_preorder", uid, oid, 200, [kind |-> "message"])
         /\ UNCHANGED <<users, employees, complaints, announcements, departments, now, backoffice, records>>

\* ------------------------------------------------- authentication and users
\* get_password_hash / verify_password of utils/security.py, a one-way hash.
Hash(pw) == <<"hash", pw>>

verify_password(pw, hashed) == hashed = Hash(pw)

\* A response sent without resolving the caller from a token.
AnonResponse(op, target, status, body) ==
    [op |-> op, uid |-> NULL, principal |-> [id |-> NULL] @@ NoUser,
     target |-> target, status |-> status, body |-> body]

\* row_to_dict followed by `del user["password_hash"]`.
WithoutPasswordHash(row) == [k \in DOMAIN row \ {"password_hash"} |-> row[k]]

UserProjection(uid) == WithoutPasswordHash(Principal(uid))

\* authenticate_user: the stored row, or FALSE.
authenticate_user(uid, pw) ==
    users[uid].present /\ verify_password(pw, users[uid].password_hash)

\* The failure path calls raise_api_error with a headers keyword the helper
\* does not accept, so it ends in a TypeError (500) and not in the 401.
login_for_access_token(uid, pw) ==
    IF ~authenticate_user(uid, pw)
    THEN Reply(AnonResponse("login_for_access_token", uid, 500, NoBody))
    ELSE Reply(AnonResponse("login_for_access_token", uid, 200,
               [kind |-> "token", sub |-> uid,
                user |-> [id |-> uid, role |-> users[uid].role,
                          employee_id |-> users[uid].employee_id,
                          department_id |-> users[uid].department_id]]))

logout == Reply(AnonResponse("logout", NULL, 200, [kind |-> "message"]))

\* The employee row attached by login and /auth/me, NULL when there is none.
EmployeeData(emp) ==
    IF emp # NULL /\ emp \in Stored(employees) THEN emp ELSE NULL

get_current_user_info(uid) ==
    IF ~IsActive(uid) THEN Refused("get_current_user_info", uid, NULL)
    ELSE Reply(Response("get_current_user_info", uid, NULL, 200,
               [kind |-> "me", user |-> Principal(uid),
                employee |-> EmployeeData(users[uid].employee_id)]))

\* The caller's filters of GET /auth/users; is_active is "true", "false" or
\* "null" (not sent as a filter), role "" and department_id NULL are absent.
UserCallerFilter(u, f) ==
    /\ f.department_id # NULL => SqlEq(u.department_id, f.department_id)
    /\ f.role # "" => u.role = f.role
    /\ (f.is_active # "null" /\ ~f.include_inactive)
          => (u.is_active <=> f.is_active = "true")

DefaultUserFilter == [department_id |-> NULL, role |-> "", is_active |-> "true",
                      include_inactive |-> FALSE]

get_users(uid, skip, limit, f, order) ==
    IF ~IsActive(uid) THEN Refused("get_users", uid, NULL)
    ELSE IF ~ManagerOrAdmin(Principal(uid))
         THEN Reply(Response("get_users", uid, NULL, 403, NoBody))
    ELSE LET selected == {i \in Stored(users) : UserCallerFilter(users[i], f)}
             total_count == Cardinality(selected)
             page == OffsetLimit(Ordered(selected, order), skip, limit)
             users_list == [k \in 1..Len(page) |-> UserProjection(page[k])]
         IN Reply(Response("get_users", uid, NULL, 200,
                           Envelope(users_list, total_count, skip, limit)
                               @@ [filter |-> f]))

\* A guard that turns nobody away.
ProfileDenied_Never(p, user_id) == FALSE

\* Regular users can only view their own profile.
ProfileDenied(p, user_id) == p.role \notin {"admin", "manager"} /\ p.id # user_id

\* GET /auth/users/{user_id}
get_user(uid, user_id) ==
    IF ~IsActive(uid) THEN Refused("get_user", uid, user_id)
    ELSE IF ProfileDenied(Principal(uid), user_id)
         THEN Reply(Response("get_user", uid, user_id, 403, NoBody))
    ELSE IF ~users[user_id].present
         THEN Reply(Response("get_user", uid, user_id, 404, NoBody))
    ELSE Reply(Response("get_user", uid, user_id, 200,
                        [kind |-> "user", user |-> UserProjection(user_id)]))

\* GET /users/{user_id}: the same guard and the same projection.
users_get_user(uid, user_id) ==
    IF ~IsActive(uid) THEN Refused("users_get_user", uid, user_id)
    ELSE IF ProfileDenied(Principal(uid), user_id)
         THEN Reply(Response("users_get_user", uid, user_id, 403, NoBody))
    ELSE IF ~users[user_id].present
         THEN Reply(Response("users_get_user", uid, user_id, 404, NoBody))
    ELSE Reply(Response("users_get_user", uid, user_id, 200,
                        [kind |-> "user", user |-> UserProjection(user_id)]))

\* The body shared by activate_user (flag TRUE) and deactivate_user (FALSE).
SetActive(op, uid, user_id, flag) ==
    IF ~IsActive(uid) THEN Refused(op, uid, user_id)
    ELSE IF ~AdminOnly(Principal(uid))
         THEN Reply(Response(op, uid, user_id, 403, NoBody))
    ELSE IF ~users[user_id].present
         THEN Reply(Response(op, uid, user_id, 404, NoBody))
    ELSE /\ users' = [users EXCEPT ![user_id].is_active = flag]
         /\ resp' = Response(op, uid, user_id, 200,
                       [kind |-> "user",
                        user |-> WithoutPasswordHash([id |-> user_id] @@ users'[user_id])])
         /\ UNCHANGED <<employees, complaints, preorders, announcements, departments, now, backoffice, records>>

activate_user(uid, user_id) == SetActive("activate_user", uid, user_id, TRUE)

deactivate_user(uid, user_id) == SetActive("deactivate_user", uid, user_id, FALSE)

\* -------------------------------------------------------------- departments
\* department_code is "" when the column is NULL.
NoDepartment == [present |-> FALSE, name |-> "", department_code |-> "",
                 is_active |-> FALSE]

\* The departments scripts/seed_data.py inserts, all active.
SeedDepartments ==
    (1 :> [present |-> TRUE, name |-> "Bakery", department_code |-> "BAK",
           is_active |-> TRUE])
    @@ (2 :> [present |-> TRUE, name |-> "Produce", department_code |-> "PRD",
              is_active |-> TRUE])

\* The is_active filter of get_departments: "null" is the absent parameter.
DepartmentCallerFilter(d, is_active) ==
    is_active # "null" => (d.is_active <=> is_active = "true")

get_departments(uid, skip, limit, is_active, order) ==
    IF ~IsActive(uid) THEN Refused("get_departments", uid, NULL)
    ELSE LET selected == {i \in Stored(departments) :
                             DepartmentCallerFilter(departments[i], is_active)}
             total_count == Cardinality(selected)
             page == OffsetLimit(Ordered(selected, order), skip, limit)
         IN Reply(Response("get_departments", uid, NULL, 200,
                           Envelope(page, total_count, skip, limit)
                               @@ [filter |-> is_active]))

\* PUT /departments/{id}: every column of the body overwrites the row.
\* departments.department_code is declared unique: a second row with the
\* same non-null code is refused by the database.
CodeTaken(code, except_id) ==
    /\ code # ""
    /\ \E d \in Stored(departments) \ {except_id} : departments[d].department_code = code

NameTaken(name) == \E d \in Stored(departments) : departments[d].name = name

\* POST /departments; code is "" when the body gives none.
create_department(uid, name, code, is_active) ==
    IF ~IsActive(uid) THEN Refused("create_department", uid, NULL)
    ELSE IF ~ManagerOrAdmin(Principal(uid))
         THEN Reply(Response("create_department", uid, NULL, 403, NoBody))
    ELSE IF CodeTaken(code, NULL)
         THEN Reply(Response("create_department", uid, NULL, 400, NoBody))
    ELSE IF NameTaken(name)
         THEN Reply(Response("create_department", uid, NULL, 400, NoBody))
    ELSE /\ HasRoom(departments)
         /\ departments' = [departments EXCEPT ![NextId(departments)] =
                [present |-> TRUE, name |-> name, department_code |-> code,
                 is_active |-> is_active]]
         /\ resp' = Response("create_department", uid, NextId(departments), 200,
                             [kind |-> "department",
                              row |-> departments'[NextId(departments)]])
         /\ UNCHANGED <<users, employees, complaints, preorders, announcements, now,
                        backoffice, records>>

\* PUT /departments/{id}: the body is a DepartmentCreate, so name, code and
\* is_active are all written, the code as NULL when the body gives none.
\* Neither value is compared with the other rows; the unique index on the
\* code fails the statement (500).
update_department(uid, department_id, name, code, is_active) ==
    IF ~IsActive(uid) THEN Refused("update_department", uid, department_id)
    ELSE IF ~ManagerOrAdmin(Principal(uid))
         THEN Reply(Response("update_department", uid, department_id, 403, NoBody))
    ELSE IF ~departments[department_id].present
         THEN Reply(Response("update_department", uid, department_id, 404, NoBody))
    ELSE IF CodeTaken(code, department_id)
         THEN Reply(Response("update_department", uid, department_id, 500, NoBody))
    ELSE /\ departments' = [departments EXCEPT ![department_id].name = name,
                                               ![department_id].department_code = code,
                                               ![department_id].is_active = is_active]
         /\ resp' = Response("update_department", uid, department_id, 200,
                             [kind |-> "department", row |-> departments'[department_id]])
         /\ UNCHANGED <<users, employees, complaints, preorders, announcements, now, backoffice, records>>

\* ------------------------------------------------------------ announcements
\* target_roles is a JSON column: null, or a list of role names (kept as the
\* set of its members), possibly empty.
NullRoles == [is_null |-> TRUE, roles |-> {}]

RoleList(S) == [is_null |-> FALSE, roles |-> S]

NoAnnouncement == [present |-> FALSE, target_department |-> NULL,
                   target_roles |-> NullRoles, expires_at |-> NULL, is_active |-> TRUE]

\* The caller's filters of get_announcements, applied to query and count.
AnnouncementCallerFilter(a, f) ==
    /\ f.is_active # "null" => (a.is_active <=> f.is_active = "true")
    /\ f.target_department # NULL => SqlEq(a.target_department, f.target_department)

NoAnnouncementFilter == [is_active |-> "null", target_department |-> NULL]

\* expires_at > current_time OR expires_at IS NULL: added to the query only.
NotExpired(a, current_time) == a.expires_at = NULL \/ a.expires_at > current_time

\* The post-query loop without its department test.
AnnouncementRelevant_AnyDepartment(p, a) ==
    ~(/\ ~a.target_roles.is_null
      /\ a.target_roles.roles # {}
      /\ p.role \notin a.target_roles.roles)

\* The post-query loop: an announcement of the fetched page is kept unless
\* its non-empty target_roles lacks the caller's role or it targets another
\* department than the (non-admin) caller's.
AnnouncementRelevant(p, a) ==
    /\ ~(/\ ~a.target_roles.is_null
         /\ a.target_roles.roles # {}
         /\ p.role \notin a.target_roles.roles)
    /\ ~(/\ a.target_department # NULL
         /\ p.role # "admin"
         /\ a.target_department # p.department_id)

get_announcements(uid, skip, limit, f, order) ==
    IF ~IsActive(uid) THEN Refused("get_announcements", uid, NULL)
    ELSE LET p == Principal(uid)
             counted == {i \in Stored(announcements) :
                            AnnouncementCallerFilter(announcements[i], f)}
             queried == {i \in counted : NotExpired(announcements[i], now)}
             page == OffsetLimit(Ordered(queried, order), skip, limit)
             filtered_announcements ==
                 SelectSeq(page, LAMBDA i : AnnouncementRelevant(p, announcements[i]))
             total_count == Cardinality(counted)
         IN Reply(Response("get_announcements", uid, NULL, 200,
                           Envelope(filtered_announcements, total_count, skip, limit)
                               @@ [filter |-> f]))

create_announcement(uid, dept, roles, expires, active) ==
    IF ~IsActive(uid) THEN Refused("create_announcement", uid, NULL)
    ELSE IF ~ManagerOrAdmin(Principal(uid))
         THEN Reply(Response("create_announcement", uid, NULL, 403, NoBody))
    ELSE /\ HasRoom(announcements)
         /\ LET aid == NextId(announcements)
                row == [present |-> TRUE, target_department |-> dept,
                        target_roles |-> roles, expires_at |-> expires,
                        is_active |-> active]
            IN /\ announcements' = [announcements EXCEPT ![aid] = row]
               /\ resp' = Response("create_announcement", uid, aid, 200,
                                   [kind |-> "announcement", row |-> row])
         /\ UNCHANGED <<users, employees, complaints, preorders, departments, now, backoffice, records>>

NoAnnouncementRead == [present |-> FALSE, announcement_id |-> NULL,
                       employee_id |-> NULL, department_id |-> NULL]

\* Everything outside the seed tables except announcement_reads and the
\* request slots.
ReadsFrame ==
    UNCHANGED <<tasks, inventory_requests, inventory_request_updates,
                temperature_monitoring_points, temperature_logs,
                temperature_violations, equipment, inflight>>

\* DELETE FROM announcement_reads WHERE announcement_id = :aid
WithoutReadsOf(tbl, aid) ==
    [i \in DOMAIN tbl |->
        IF tbl[i].present /\ tbl[i].announcement_id = aid
        THEN NoAnnouncementRead ELSE tbl[i]]

delete_announcement(uid, aid) ==
    IF ~IsActive(uid) THEN Refused("delete_announcement", uid, aid)
    ELSE IF ~AdminOnly(Principal(uid))
         THEN Reply(Response("delete_announcement", uid, aid, 403, NoBody))
    ELSE IF ~announcements[aid].present
         THEN Reply(Response("delete_announcement", uid, aid, 404, NoBody))
    ELSE /\ announcement_reads' = WithoutReadsOf(announcement_reads, aid)
         /\ announcements' = [announcements EXCEPT ![aid] = NoAnnouncement]
         /\ resp' = Response("delete_announcement", uid, aid, 200, [kind |-> "message"])
         /\ UNCHANGED <<users, employees, complaints, preorders, departments, now, records>>
         /\ ReadsFrame

\* Time passes between two requests: datetime.now() reads a later clock.
Tick ==
    /\ now < MaxTime
    /\ now' = now + 1
    /\ UNCHANGED <<users, employees, complaints, preorders, announcements,
                   departments, resp, backoffice, records>>

\* ------------------------------------------------------------------ tasks
TaskIds == {1}
TaskStatuses == {"pending", "in_progress", "completed"}

NoTask == [present |-> FALSE, status |-> "pending", is_completed |-> FALSE,
           completed_at |-> NULL, assigned_to |-> NULL, assigned_by |-> NULL,
           department_id |-> NULL, assigned_to_department |-> NULL]

\* The requests of the task, inventory, temperature and read-receipt routers
\* leave the tables of the other routers and the clock alone.
CoreUnchanged ==
    UNCHANGED <<users, employees, complaints, preorders, announcements, departments, now,
                records>>

\* The owner check of update_task and update_task_status: the caller's user
\* id against the task's employee columns, or a manager or admin.
TaskUpdateAllowed(p, t) ==
    t.assigned_to = p.id \/ t.assigned_by = p.id \/ p.role \in {"admin", "manager"}

\* get_task as the handlers call it: the response for task tid read from tbl.
TaskFetch(op, uid, tid, tbl) ==
    IF ~tbl[tid].present THEN Response(op, uid, tid, 404, NoBody)
    ELSE Response(op, uid, tid, 200, [kind |-> "task", row |-> tbl[tid]])

\* An applied write followed by the handler's closing read of the task.
TaskWrite(op, uid, tid, row) ==
    /\ tasks' = [tasks EXCEPT ![tid] = row]
    /\ resp' = TaskFetch(op, uid, tid, tasks')
    /\ CoreUnchanged
    /\ UNCHANGED <<inventory_requests, inventory_request_updates, announcement_reads,
                   temperature_monitoring_points, temperature_logs,
                   temperature_violations, equipment, inflight>>

get_task(uid, tid) ==
    IF ~IsActive(uid) THEN Refused("get_task", uid, tid)
    ELSE Reply(TaskFetch("get_task", uid, tid, tasks))

\* The new row carries the status and the is_completed flag; completed_at is
\* not among the inserted values.
create_task(uid, assigner, assignee, dept, todept, st) ==
    IF ~IsActive(uid) THEN Refused("create_task", uid, NULL)
    ELSE /\ HasRoom(tasks)
         /\ TaskWrite("create_task", uid, NextId(tasks),
                [present |-> TRUE, status |-> st, is_completed |-> (st = "completed"),
                 completed_at |-> NULL, assigned_to |-> assignee,
                 assigned_by |-> IF assigner # NULL THEN assigner ELSE uid,
                 department_id |-> dept, assigned_to_department |-> todept])

\* A TaskUpdate body: a field left at NULL or "" was not provided (or provided
\* as null) and is skipped by the handler.
NoTaskUpdate == [assigned_to |-> NULL, status |-> ""]

update_task(uid, tid, u) ==
    IF ~IsActive(uid) THEN Refused("update_task", uid, tid)
    ELSE IF ~tasks[tid].present
         THEN Reply(Response("update_task", uid, tid, 404, NoBody))
    ELSE IF ~TaskUpdateAllowed(Principal(uid), tasks[tid])
         THEN Reply(Response("update_task", uid, tid, 403, NoBody))
    ELSE /\ u # NoTaskUpdate
         /\ TaskWrite("update_task", uid, tid,
                [tasks[tid] EXCEPT
                    !.assigned_to = IF u.assigned_to # NULL THEN u.assigned_to ELSE @,
                    !.status = IF u.status # "" THEN u.status ELSE @,
                    !.is_completed = IF u.status # "" THEN u.status = "completed" ELSE @,
                    !.completed_at = IF u.status = "completed" THEN now ELSE @])

update_task_status(uid, tid, st) ==
    IF ~IsActive(uid) THEN Refused("update_task_status", uid, tid)
    ELSE IF ~tasks[tid].present
         THEN Reply(Response("update_task_status", uid, tid, 404, NoBody))
    ELSE IF ~TaskUpdateAllowed(Principal(uid), tasks[tid])
         THEN Reply(Response("update_task_status", uid, tid, 403, NoBody))
    ELSE IF st = "<missing>"
         THEN Reply(Response("update_task_status", uid, tid, 400, NoBody))
    ELSE TaskWrite("update_task_status", uid, tid,
             [tasks[tid] EXCEPT
                 !.status = st,
                 !.is_completed = (st = "completed"),
                 !.completed_at = IF st = "completed" THEN now
                                  ELSE IF tasks[tid].status = "completed" THEN NULL
                                  ELSE @])

\* ----------------------------------------------------- inventory requests
InventoryRequestIds == {1}
InventoryUpdateIds == {1, 2}
InventoryStatuses == {"pending", "fulfilled"}

NoInventoryRequest == [present |-> FALSE, status |-> "pending", fulfilled_date |-> NULL,
                       requesting_department |-> NULL, fulfilling_department |-> NULL]

\* A row of the audit log.
NoInventoryRequestUpdate ==
    [present |-> FALSE, request_id |-> NULL, updated_by |-> NULL, old_status |-> "",
     new_status |-> "", update_message |-> ""]

\* The select by id that closes every inventory request handler.
InventoryFetch(op, uid, rid, tbl) ==
    IF ~tbl[rid].present THEN Response(op, uid, rid, 404, NoBody)
    ELSE Response(op, uid, rid, 200, [kind |-> "inventory_request", row |-> tbl[rid]])

\* The audit rows of request rid.
UpdatesOf(tbl, rid) == {i \in Stored(tbl) : tbl[i].request_id = rid}

InventoryFrame ==
    /\ CoreUnchanged
    /\ UNCHANGED <<tasks, announcement_reads, temperature_monitoring_points,
                   temperature_logs, temperature_violations, equipment, inflight>>

get_inventory_request(uid, rid) ==
    IF ~IsActive(uid) THEN Refused("get_inventory_request", uid, rid)
    ELSE Reply(InventoryFetch("get_inventory_request", uid, rid, inventory_requests))

\* The request row is the only insert of the handler.
create_inventory_request(uid, st, requesting, fulfilling) ==
    IF ~IsActive(uid) THEN Refused("create_inventory_request", uid, NULL)
    ELSE /\ HasRoom(inventory_requests)
         /\ inventory_requests' =
                [inventory_requests EXCEPT ![NextId(inventory_requests)] =
                    [present |-> TRUE, status |-> st, fulfilled_date |-> NULL,
                     requesting_department |-> requesting,
                     fulfilling_department |-> fulfilling]]
         /\ resp' = InventoryFetch("create_inventory_request", uid,
                                   NextId(inventory_requests), inventory_requests')
         /\ UNCHANGED inventory_request_updates
         /\ InventoryFrame

\* An InventoryRequestUpdate body: a field left at NULL or "" is skipped.
NoInventoryUpdate == [status |-> "", fulfilling_department |-> NULL]

update_inventory_request(uid, rid, u) ==
    IF ~IsActive(uid) THEN Refused("update_inventory_request", uid, rid)
    ELSE IF ~inventory_requests[rid].present
         THEN Reply(Response("update_inventory_request", uid, rid, 404, NoBody))
    ELSE LET r == inventory_requests[rid]
             changing == u.status # "" /\ u.status # r.status
         IN /\ u # NoInventoryUpdate
            /\ changing => HasRoom(inventory_request_updates)
            /\ inventory_request_updates' =
                   IF changing
                   THEN [inventory_request_updates EXCEPT
                            ![NextId(inventory_request_updates)] =
                                [present |-> TRUE, request_id |-> rid,
                                 updated_by |-> users[uid].employee_id,
                                 old_status |-> r.status, new_status |-> u.status,
                                 update_message |-> "Status changed from old to new"]]
                   ELSE inventory_request_updates
            /\ inventory_requests' = [inventory_requests EXCEPT ![rid] =
                   [r EXCEPT
                       !.status = IF u.status # "" THEN u.status ELSE @,
                       !.fulfilling_department =
                           IF u.fulfilling_department # NULL
                           THEN u.fulfilling_department ELSE @,
                       !.fulfilled_date =
                           IF changing /\ u.status = "fulfilled" THEN now ELSE @]]
            /\ resp' = InventoryFetch("update_inventory_request", uid, rid,
                                      inventory_requests')
            /\ InventoryFrame

\* message is "" when the body carries none and the default text is logged.
update_inventory_request_status(uid, rid, st, message) ==
    IF ~IsActive(uid) THEN Refused("update_inventory_request_status", uid, rid)
    ELSE IF ~inventory_requests[rid].present
         THEN Reply(Response("update_inventory_request_status", uid, rid, 404, NoBody))
    ELSE IF st = "<missing>"
         THEN Reply(Response("update_inventory_request_status", uid, rid, 400, NoBody))
    ELSE LET r == inventory_requests[rid]
         IN /\ HasRoom(inventory_request_updates)
            /\ inventory_request_updates' =
                   [inventory_request_updates EXCEPT
                       ![NextId(inventory_request_updates)] =
                           [present |-> TRUE, request_id |-> rid,
                            updated_by |-> users[uid].employee_id,
                            old_status |-> r.status, new_status |-> st,
                            update_message |-> IF message # "" THEN message
                                               ELSE "Status changed to new"]]
            /\ inventory_requests' = [inventory_requests EXCEPT ![rid] =
                   [r EXCEPT !.status = st,
                             !.fulfilled_date = IF st = "fulfilled" THEN now ELSE @]]
            /\ resp' = InventoryFetch("update_inventory_request_status", uid, rid,
                                      inventory_requests')
            /\ InventoryFrame

\* new_status is "<missing>" when the body carries none: the audit row then
\* repeats the current status and the request is left alone.
add_inventory_request_update(uid, rid, new_status, message) ==
    IF ~IsActive(uid) THEN Refused("add_inventory_request_update", uid, rid)
    ELSE IF ~inventory_requests[rid].present
         THEN Reply(Response("add_inventory_request_update", uid, rid, 404, NoBody))
    ELSE LET r == inventory_requests[rid]
             update_id == NextId(inventory_request_updates)
             new_update == [present |-> TRUE, request_id |-> rid,
                            updated_by |-> users[uid].employee_id,
                            old_status |-> r.status,
                            new_status |-> IF new_status # "<missing>" THEN new_status
                                           ELSE r.status,
                            update_message |-> IF message # "" THEN message
                                               ELSE "Status updated"]
         IN /\ HasRoom(inventory_request_updates)
            /\ inventory_request_updates' =
                   [inventory_request_updates EXCEPT ![update_id] = new_update]
            /\ inventory_requests' =
                   IF new_status # "<missing>" /\ new_status # r.status
                   THEN [inventory_requests EXCEPT ![rid].status = new_status]
                   ELSE inventory_requests
            /\ resp' = Response("add_inventory_request_update", uid, rid, 200,
                                [kind |-> "inventory_request_update",
                                 id |-> update_id, row |-> new_update])
            /\ InventoryFrame

\* A delete that takes the oldest audit row of the request only.
WithoutUpdatesOf_Oldest(tbl, rid) ==
    [i \in DOMAIN tbl |->
        IF tbl[i].request_id = rid /\ \A j \in UpdatesOf(tbl, rid) : i <= j
        THEN NoInventoryRequestUpdate ELSE tbl[i]]

\* DELETE FROM inventory_request_updates WHERE request_id = :rid
WithoutUpdatesOf(tbl, rid) ==
    [i \in DOMAIN tbl |->
        IF tbl[i].request_id = rid THEN NoInventoryRequestUpdate ELSE tbl[i]]

\* The audit rows of the request go first, then the request, in one commit.
delete_inventory_request(uid, rid) ==
    IF ~IsActive(uid) THEN Refused("delete_inventory_request", uid, rid)
    ELSE IF ~ManagerOrAdmin(Principal(uid))
         THEN Reply(Response("delete_inventory_request", uid, rid, 403, NoBody))
    ELSE IF ~inventory_requests[rid].present
         THEN Reply(Response("delete_inventory_request", uid, rid, 404, NoBody))
    ELSE /\ inventory_request_updates' = WithoutUpdatesOf(inventory_request_updates, rid)
         /\ inventory_requests' = [inventory_requests EXCEPT ![rid] = NoInventoryRequest]
         /\ resp' = Response("delete_inventory_request", uid, rid, 200,
                             [kind |-> "message"])
         /\ InventoryFrame

\* ------------------------------------------------- the remaining tables
ReadIds == {1, 2}
PointIds == {1}
LogIds == {1, 2}
ViolationIds == {1, 2}
EquipmentIds == {1}
RequestSlots == {1, 2}

NoPoint == [present |-> FALSE, department_id |-> NULL, min_temp_fahrenheit |-> 0,
            max_temp_fahrenheit |-> 0]

NoLog == [present |-> FALSE, monitoring_point_id |-> NULL,
          recorded_temp_fahrenheit |-> 0, is_within_range |-> FALSE]

NoViolation == [present |-> FALSE, log_id |-> NULL, monitoring_point_id |-> NULL,
                violation_type |-> "", severity |-> ""]

\* A calendar date; NoDate stands for a NULL date column.
NoDate == [year |-> 0, month |-> 0, day |-> 0]

NoEquipment == [present |-> FALSE, department_id |-> NULL, equipment_type |-> "",
                last_maintenance |-> NoDate, next_maintenance_due |-> NoDate]

TrainingTypeIds == {1, 2}
RequirementIds == {1, 2, 3}
TrainingRecordIds == {1, 2}
ReminderIds == {1}
MaintenanceIds == {1, 2}

\* required_for_departments and required_for_positions are JSON lists, kept
\* as the sets of their members; validity_period_months is NULL when absent.
NoTrainingType == [present |-> FALSE, is_mandatory |-> FALSE,
                   required_for_departments |-> {}, required_for_positions |-> {},
                   validity_period_months |-> NULL]

\* required_by_date is a day number on the clock of now.
NoRequirement == [present |-> FALSE, employee_id |-> NULL, training_type_id |-> NULL,
                  required_by_date |-> NULL, status |-> "",
                  completed_training_record_id |-> NULL]

NoTrainingRecord == [present |-> FALSE, employee_id |-> NULL, training_type_id |-> NULL,
                     completed_date |-> NoDate, expiration_date |-> NoDate,
                     status |-> ""]

NoReminder == [present |-> FALSE, user_id |-> NULL, is_completed |-> FALSE]

NoMaintenance == [present |-> FALSE, equipment_id |-> NULL, maintenance_type |-> "",
                  status |-> "", completed_date |-> NoDate]

\* The training, reminder and maintenance tables start empty.
InitRecords ==
    /\ training_types = [i \in TrainingTypeIds |-> NoTrainingType]
    /\ training_requirements = [i \in RequirementIds |-> NoRequirement]
    /\ employee_training_records = [i \in TrainingRecordIds |-> NoTrainingRecord]
    /\ reminders = [i \in ReminderIds |-> NoReminder]
    /\ equipment_maintenance = [i \in MaintenanceIds |-> NoMaintenance]

\* A request slot with nothing in flight.
Idle == [op |-> "idle"]

\* Every table outside the seed is empty and no request is in flight.
InitBackoffice ==
    /\ tasks = [i \in TaskIds |-> NoTask]
    /\ inventory_requests = [i \in InventoryRequestIds |-> NoInventoryRequest]
    /\ inventory_request_updates =
           [i \in InventoryUpdateIds |-> NoInventoryRequestUpdate]
    /\ announcement_reads = [i \in ReadIds |-> NoAnnouncementRead]
    /\ temperature_monitoring_points = [i \in PointIds |-> NoPoint]
    /\ temperature_logs = [i \in LogIds |-> NoLog]
    /\ temperature_violations = [i \in ViolationIds |-> NoViolation]
    /\ equipment = [i \in EquipmentIds |-> NoEquipment]
    /\ inflight = [r \in RequestSlots |-> Idle]
    /\ InitRecords

\* ------------------------------------------ equipment and monitoring points
create_equipment(uid, dept, equipment_type) ==
    IF ~IsActive(uid) THEN Refused("create_equipment", uid, NULL)
    ELSE IF ~ManagerOrAdmin(Principal(uid))
         THEN Reply(Response("create_equipment", uid, NULL, 403, NoBody))
    ELSE /\ HasRoom(equipment)
         /\ equipment' = [equipment EXCEPT ![NextId(equipment)] =
                              [present |-> TRUE, department_id |-> dept,
                               equipment_type |-> equipment_type,
                               last_maintenance |-> NoDate,
                               next_maintenance_due |-> NoDate]]
         /\ resp' = Response("create_equipment", uid, NextId(equipment), 200,
                             [kind |-> "equipment", row |-> equipment'[NextId(equipment)]])
         /\ CoreUnchanged
         /\ UNCHANGED <<tasks, inventory_requests, inventory_request_updates,
                        announcement_reads, temperature_monitoring_points,
                        temperature_logs, temperature_violations, inflight>>

create_monitoring_point(uid, dept, min_temp, max_temp) ==
    IF ~IsActive(uid) THEN Refused("create_monitoring_point", uid, NULL)
    ELSE IF ~ManagerOrAdmin(Principal(uid))
         THEN Reply(Response("create_monitoring_point", uid, NULL, 403, NoBody))
    ELSE /\ HasRoom(temperature_monitoring_points)
         /\ temperature_monitoring_points' =
                [temperature_monitoring_points EXCEPT
                    ![NextId(temperature_monitoring_points)] =
                        [present |-> TRUE, department_id |-> dept,
                         min_temp_fahrenheit |-> min_temp,
                         max_temp_fahrenheit |-> max_temp]]
         /\ resp' = Response("create_monitoring_point", uid,
                             NextId(temperature_monitoring_points), 200,
                             [kind |-> "monitoring_point",
                              row |-> temperature_monitoring_points'[
                                          NextId(temperature_monitoring_points)]])
         /\ CoreUnchanged
         /\ UNCHANGED <<tasks, inventory_requests, inventory_request_updates,
                        announcement_reads, temperature_logs, temperature_violations,
                        equipment, inflight>>

\* ------------------------------------------------------ temperature logs
\* A comparison that leaves the two limits out of the range.
WithinRange_Exclusive(min_temp, temp, max_temp) == min_temp < temp /\ temp < max_temp

\* min_temp_fahrenheit <= recorded_temp_fahrenheit <= max_temp_fahrenheit
WithinRange(min_temp, temp, max_temp) == min_temp <= temp /\ temp <= max_temp

\* A comparison that counts a deviation of exactly 10 degrees as far.
FarFromMiddle_Inclusive(min_temp, temp, max_temp) ==
    LET twice == 2 * temp - (min_temp + max_temp)
    IN twice >= 20 \/ twice <= -20

\* abs(temp - (min + max) / 2) > 10, in whole degrees.
FarFromMiddle(min_temp, temp, max_temp) ==
    LET twice == 2 * temp - (min_temp + max_temp)
    IN twice > 20 \/ twice < -20

\* The log is inserted and committed; a reading out of range then gets one
\* violation row that names the log.
create_temperature_log(uid, point_id, temp) ==
    IF ~IsActive(uid) THEN Refused("create_temperature_log", uid, NULL)
    ELSE IF ~temperature_monitoring_points[point_id].present
         THEN Reply(Response("create_temperature_log", uid, NULL, 404, NoBody))
    ELSE LET monitoring_point == temperature_monitoring_points[point_id]
             is_within_range == WithinRange(monitoring_point.min_temp_fahrenheit, temp,
                                            monitoring_point.max_temp_fahrenheit)
             log_id == NextId(temperature_logs)
             new_log == [present |-> TRUE, monitoring_point_id |-> point_id,
                         recorded_temp_fahrenheit |-> temp,
                         is_within_range |-> is_within_range]
             new_violation ==
                 [present |-> TRUE, log_id |-> log_id, monitoring_point_id |-> point_id,
                  violation_type |->
                      IF temp < monitoring_point.min_temp_fahrenheit
                      THEN "too_cold" ELSE "too_hot",
                  severity |->
                      IF FarFromMiddle(monitoring_point.min_temp_fahrenheit, temp,
                                       monitoring_point.max_temp_fahrenheit)
                      THEN "high" ELSE "medium"]
         IN /\ HasRoom(temperature_logs)
            /\ ~is_within_range => HasRoom(temperature_violations)
            /\ temperature_logs' = [temperature_logs EXCEPT ![log_id] = new_log]
            /\ temperature_violations' =
                   IF is_within_range THEN temperature_violations
                   ELSE [temperature_violations EXCEPT
                            ![NextId(temperature_violations)] = new_violation]
            /\ resp' = Response("create_temperature_log", uid, log_id, 200,
                                [kind |-> "temperature_log", row |-> new_log])
            /\ CoreUnchanged
            /\ UNCHANGED <<tasks, inventory_requests, inventory_request_updates,
                           announcement_reads, temperature_monitoring_points,
                           equipment, inflight>>

\* ------------------------------------------- creating and updating users
\* The user row both create_user handlers insert.
NewUser(role, employee_id, department_id) ==
    [present |-> TRUE, role |-> role, department_id |-> department_id,
     employee_id |-> employee_id, is_active |-> TRUE, password_hash |-> Hash(2)]

UserFrame ==
    UNCHANGED <<employees, complaints, preorders, announcements, departments, now,
                records>>

UserResponse(op, uid, user_id, tbl) ==
    Response(op, uid, user_id, 200,
             [kind |-> "user", user |-> WithoutPasswordHash([id |-> user_id] @@ tbl[user_id])])

\* The employee check shared by the create_user handlers: the employee must
\* exist and no user row may hold it.
EmployeeFree(employee_id) ==
    /\ employees[employee_id].present
    /\ ~\E u \in Stored(users) : users[u].employee_id = employee_id

\* POST /users/: the checks answer 400.
users_create_user(uid, role, employee_id, department_id) ==
    IF ~IsActive(uid) THEN Refused("users_create_user", uid, NULL)
    ELSE IF ~AdminOnly(Principal(uid))
         THEN Reply(Response("users_create_user", uid, NULL, 403, NoBody))
    ELSE IF employee_id # NULL /\ ~EmployeeFree(employee_id)
         THEN Reply(Response("users_create_user", uid, NULL, 400, NoBody))
    ELSE IF department_id # NULL /\ ~departments[department_id].present
         THEN Reply(Response("users_create_user", uid, NULL, 400, NoBody))
    ELSE /\ HasRoom(users)
         /\ users' = [users EXCEPT ![NextId(users)] =
                          NewUser(role, employee_id, department_id)]
         /\ resp' = UserResponse("users_create_user", uid, NextId(users), users')
         /\ UserFrame
         /\ UNCHANGED backoffice

\* POST /auth/users: the same checks inside a try block whose handler turns
\* every exception, the 400s included, into a 500.
create_user(uid, role, employee_id, department_id) ==
    IF ~IsActive(uid) THEN Refused("create_user", uid, NULL)
    ELSE IF ~AdminOnly(Principal(uid))
         THEN Reply(Response("create_user", uid, NULL, 403, NoBody))
    ELSE IF employee_id # NULL /\ ~EmployeeFree(employee_id)
         THEN Reply(Response("create_user", uid, NULL, 500, NoBody))
    ELSE IF department_id # NULL /\ ~departments[department_id].present
         THEN Reply(Response("create_user", uid, NULL, 500, NoBody))
    ELSE /\ HasRoom(users)
         /\ users' = [users EXCEPT ![NextId(users)] =
                          NewUser(role, employee_id, department_id)]
         /\ resp' = UserResponse("create_user", uid, NextId(users), users')
         /\ UserFrame
         /\ UNCHANGED backoffice

\* The permission check of both update_user handlers: an admin, or the user
\* itself as long as the body names neither role nor is_active.
UserUpdateAllowed_AnyKey(p, user_id, names_role) ==
    p.role = "admin" \/ p.id = user_id

UserUpdateAllowed(p, user_id, names_role) ==
    p.role = "admin" \/ (p.id = user_id /\ ~names_role)

\* The values a body can carry under its is_active key; "<missing>" is a
\* body without the key, "null" a key whose value is null, which no update
\* statement writes.
ActiveKeys == {"<missing>", "null", "true", "false"}

\* PUT /users/{user_id}: every key of the body with a non-null value is
\* written; names_role tells whether the body has a role key, active is what
\* it carries under is_active, employee_id is the link the body carries, or
\* NULL when it carries none. An employee that does not exist violates the
\* foreign key (500).
users_update_user(uid, user_id, names_role, role, active, employee_id) ==
    IF ~IsActive(uid) THEN Refused("users_update_user", uid, user_id)
    ELSE IF ~users[user_id].present
         THEN Reply(Response("users_update_user", uid, user_id, 404, NoBody))
    ELSE IF ~UserUpdateAllowed(Principal(uid), user_id,
                               names_role \/ active # "<missing>")
         THEN Reply(Response("users_update_user", uid, user_id, 403, NoBody))
    ELSE IF employee_id # NULL /\ ~employees[employee_id].present
         THEN Reply(Response("users_update_user", uid, user_id, 500, NoBody))
    ELSE /\ names_role \/ active \in {"true", "false"} \/ employee_id # NULL
         /\ users' = [users EXCEPT
                          ![user_id].role = IF names_role THEN role ELSE @,
                          ![user_id].is_active =
                              IF active \in {"true", "false"} THEN active = "true"
                              ELSE @,
                          ![user_id].employee_id =
                              IF employee_id # NULL THEN employee_id ELSE @]
         /\ resp' = UserResponse("users_update_user", uid, user_id, users')
         /\ UserFrame
         /\ UNCHANGED backoffice

\* PUT /auth/users/{user_id}, up to its last select before the write: the
\* request that passed every check waits in a slot with the values it will
\* write. names_role and active are as for PUT /users/{user_id}; given tells
\* whether the body has an employee_id key; the value 0 unlinks the user.
update_user_check(slot, uid, user_id, names_role, role, active, given, employee_id) ==
    /\ inflight[slot] = Idle
    /\ IF ~IsActive(uid) THEN Refused("update_user", uid, user_id)
       ELSE IF ~users[user_id].present
            THEN Reply(Response("update_user", uid, user_id, 404, NoBody))
       ELSE IF ~UserUpdateAllowed(Principal(uid), user_id,
                                  names_role \/ active # "<missing>")
            THEN Reply(Response("update_user", uid, user_id, 403, NoBody))
       ELSE IF given /\ employee_id # 0 /\ ~employees[employee_id].present
            THEN Reply(Response("update_user", uid, user_id, 400, NoBody))
       ELSE IF /\ given /\ employee_id # 0
               /\ \E u \in Stored(users) \ {user_id} : users[u].employee_id = employee_id
            THEN Reply(Response("update_user", uid, user_id, 400, NoBody))
       ELSE /\ inflight' = [inflight EXCEPT ![slot] =
                    [op |-> "update_user", uid |-> uid, user_id |-> user_id,
                     names_role |-> names_role, role |-> role, active |-> active,
                     given |-> given, employee_id |-> employee_id]]
            /\ UNCHANGED <<users, resp, tasks, inventory_requests,
                           inventory_request_updates, announcement_reads,
                           temperature_monitoring_points, temperature_logs,
                           temperature_violations, equipment>>
            /\ UserFrame

\* The update statement, the commit and the closing select of the request
\* waiting in the slot.
update_user_write(slot) ==
    /\ inflight[slot] # Idle
    /\ inflight[slot].op = "update_user"
    /\ LET r == inflight[slot]
       IN /\ users' = [users EXCEPT
                           ![r.user_id].role = IF r.names_role THEN r.role ELSE @,
                           ![r.user_id].is_active =
                               IF r.active \in {"true", "false"} THEN r.active = "true"
                               ELSE @,
                           ![r.user_id].employee_id =
                               IF r.given THEN (IF r.employee_id = 0 THEN NULL
                                                ELSE r.employee_id)
                               ELSE @]
          /\ resp' = UserResponse("update_user", r.uid, r.user_id, users')
    /\ inflight' = [inflight EXCEPT ![slot] = Idle]
    /\ UserFrame
    /\ UNCHANGED <<tasks, inventory_requests, inventory_request_updates,
                   announcement_reads, temperature_monitoring_points, temperature_logs,
                   temperature_violations, equipment>>

\* ------------------------------------- deleting employees and departments
\* An update that matches no row.
Nulled_NoRow(table, column, id) == table

\* UPDATE table SET column = NULL WHERE column = :id
Nulled(table, column, id) ==
    [i \in DOMAIN table |->
        IF table[i][column] = id THEN [table[i] EXCEPT ![column] = NULL] ELSE table[i]]

\* The employee columns break_employee_dependencies finds in the tables and
\* sets to NULL, and the complaint columns delete_employee adds.
break_employee_dependencies(employee_id) ==
    /\ tasks' = Nulled(Nulled(tasks, "assigned_to", employee_id),
                       "assigned_by", employee_id)
    /\ complaints' = Nulled(complaints, "assigned_to", employee_id)
    /\ preorders' = Nulled(Nulled(preorders, "requested_by", employee_id),
                           "assigned_to", employee_id)
    /\ inventory_request_updates' =
           Nulled(inventory_request_updates, "updated_by", employee_id)
    /\ announcement_reads' = Nulled(announcement_reads, "employee_id", employee_id)

delete_employee(uid, employee_id) ==
    IF ~IsActive(uid) THEN Refused("delete_employee", uid, employee_id)
    ELSE IF ~AdminOnly(Principal(uid))
         THEN Reply(Response("delete_employee", uid, employee_id, 403, NoBody))
    ELSE IF ~employees[employee_id].present
         THEN Reply(Response("delete_employee", uid, employee_id, 404, NoBody))
    ELSE IF \E u \in Stored(users) : users[u].employee_id = employee_id
         THEN Reply(Response("delete_employee", uid, employee_id, 400, NoBody))
    ELSE /\ break_employee_dependencies(employee_id)
         /\ employees' = [employees EXCEPT ![employee_id] = NoEmployee]
         /\ resp' = Response("delete_employee", uid, employee_id, 200,
                             [kind |-> "message"])
         /\ UNCHANGED <<users, announcements, departments, now, records, inventory_requests,
                        temperature_monitoring_points, temperature_logs,
                        temperature_violations, equipment, inflight>>

\* Every listed table.column that holds the department is set to NULL.
break_department_dependencies(department_id) ==
    /\ tasks' = Nulled(Nulled(tasks, "department_id", department_id),
                       "assigned_to_department", department_id)
    /\ complaints' = Nulled(complaints, "department_involved", department_id)
    /\ preorders' = Nulled(preorders, "target_department", department_id)
    /\ inventory_requests' =
           Nulled(Nulled(inventory_requests, "requesting_department", department_id),
                  "fulfilling_department", department_id)
    /\ equipment' = Nulled(equipment, "department_id", department_id)
    /\ temperature_monitoring_points' =
           Nulled(temperature_monitoring_points, "department_id", department_id)
    /\ announcements' = Nulled(announcements, "target_department", department_id)
    /\ announcement_reads' = Nulled(announcement_reads, "department_id", department_id)

delete_department(uid, department_id) ==
    IF ~IsActive(uid) THEN Refused("delete_department", uid, department_id)
    ELSE IF ~AdminOnly(Principal(uid))
         THEN Reply(Response("delete_department", uid, department_id, 403, NoBody))
    ELSE IF ~departments[department_id].present
         THEN Reply(Response("delete_department", uid, department_id, 404, NoBody))
    ELSE IF \E e \in Stored(employees) : employees[e].department_id = department_id
         THEN Reply(Response("delete_department", uid, department_id, 400, NoBody))
    ELSE IF \E u \in Stored(users) : users[u].department_id = department_id
         THEN Reply(Response("delete_department", uid, department_id, 400, NoBody))
    ELSE /\ break_department_dependencies(department_id)
         /\ departments' = [departments EXCEPT ![department_id] = NoDepartment]
         /\ resp' = Response("delete_department", uid, department_id, 200,
                             [kind |-> "message"])
         /\ UNCHANGED <<users, employees, now, records, inventory_request_updates,
                        temperature_logs, temperature_violations, inflight>>

\* ------------------------------------------------------- the seeded tables

\* The account create_admin_user.py inserts: an active admin with no
\* employee and no department.
AdminUser == [present |-> TRUE, role |-> "admin", department_id |-> NULL,
              employee_id |-> NULL, is_active |-> TRUE, password_hash |-> Hash(1)]

\* Any active account the user endpoints can leave in the table.
UserRows ==
    [present : {TRUE}, role : Roles, department_id : NullableDept,
     employee_id : NullableEmp, is_active : {TRUE}, password_hash : {Hash(2)}]

\* Two active employees: the manager of department 1 and a clerk of
\* department 2.
SeedEmployees ==
    (1 :> [present |-> TRUE, department_id |-> 1, status |-> "active",
           position |-> "department manager"])
    @@ (2 :> [present |-> TRUE, department_id |-> 2, status |-> "active",
              position |-> "clerk"])

\* ------------------------------- SpecComplaintAccess: who sees a complaint
\* One seeded admin and one account of any role, department and employee
\* link; complaints are filed, listed, fetched and have their privacy set.
Init ==
    /\ \E u \in UserRows : users = (1 :> AdminUser) @@ (2 :> u)
    /\ employees = SeedEmployees
    /\ complaints = [i \in ComplaintIds |-> NoComplaint]
    /\ preorders = [i \in PreorderIds |-> NoPreorder]
    /\ announcements = [i \in AnnouncementIds |-> NoAnnouncement]
    /\ departments = SeedDepartments
    /\ now = 1
    /\ resp = NoResponse
    /\ InitBackoffice

ListComplaints ==
    \E uid \in Stored(users), f \in {NoFilter, [NoFilter EXCEPT !.severity = "high"]} :
        get_complaints(uid, 0, MaxLimit, f, "desc")

FetchComplaint ==
    \E uid \in Stored(users), cid \in ComplaintIds : get_complaint(uid, cid)

FileComplaint ==
    \E uid \in Stored(users), dept \in NullableDept, sev \in Severities, priv \in BOOLEAN :
        create_complaint(uid, dept, sev, priv, NULL, "open")

SetComplaintPrivacy ==
    \E uid \in Stored(users), cid \in ComplaintIds,
       priv \in NullableBool \cup {"<missing>"} :
        update_complaint_privacy(uid, cid, priv)

NextComplaintAccess ==
    \/ ListComplaints
    \/ FetchComplaint
    \/ FileComplaint
    \/ SetComplaintPrivacy

SpecComplaintAccess == Init /\ [][NextComplaintAccess]_vars

\* The visibility of complaint c to principal p as the specification states
\* it (values compared as the handlers compare them, None equal to None).
ClaimedComplaintVisible(p, c) ==
    \/ p.role = "admin"
    \/ p.role = "manager" /\ p.department_id = c.department_involved
    \/ /\ p.department_id = c.department_involved
       /\ c.severity # "high"
       /\ c.is_private # "true"

\* C1: a stored complaint is selected by get_complaints (no caller filter,
\* a page that holds every row) if and only if the principal is admin, or a
\* manager of the complaint's department, or of the complaint's department
\* while the complaint is neither of high severity nor private.
C1_ListedIffVisible ==
    (/\ resp.op = "get_complaints"
     /\ resp.status = 200
     /\ resp.body.filter = NoFilter
     /\ resp.body.offset = 0
     /\ resp.body.total <= resp.body.limit)
    => \A i \in Stored(complaints) :
          i \in SeqToSet(resp.body.items)
             <=> ClaimedComplaintVisible(resp.principal, complaints[i])

\* C2: get_complaint returns the record exactly when the list predicate
\* selects it for the caller, and answers 403 (never 404) when the record
\* exists and the predicate fails.
C2_FetchMatchesList ==
    (/\ resp.op = "get_complaint"
     /\ resp.status # InactiveStatus
     /\ complaints[resp.target].present)
    => IF ComplaintListFilter(resp.principal, complaints[resp.target])
       THEN resp.status = 200 /\ resp.body.row = complaints[resp.target]
       ELSE resp.status = 403

\* ------------------------------ SpecComplaintGuards: who changes a complaint
CreateComplaint ==
    \E uid \in Stored(users), dept \in NullableDept, assignee \in NullableEmp :
        create_complaint(uid, dept, "medium", FALSE, assignee, "open")

UpdateComplaint ==
    \E uid \in Stored(users), cid \in ComplaintIds,
       u \in {[NoUpdate EXCEPT !.status = "resolved"],
              [NoUpdate EXCEPT !.assigned_to = 2],
              [NoUpdate EXCEPT !.department_involved = 2]} :
        update_complaint(uid, cid, u)

UpdateComplaintStatus ==
    \E uid \in Stored(users), cid \in ComplaintIds,
       st \in {"open", "resolved", "<missing>"} :
        update_complaint_status(uid, cid, st)

AssignComplaint ==
    \E uid \in Stored(users), cid \in ComplaintIds, given \in BOOLEAN,
       assignee \in NullableEmp :
        assign_complaint(uid, cid, given, IF given THEN assignee ELSE NULL)

DeleteComplaint ==
    \E uid \in Stored(users), cid \in ComplaintIds : delete_complaint(uid, cid)

NextComplaintGuards ==
    \/ CreateComplaint
    \/ UpdateComplaint
    \/ UpdateComplaintStatus
    \/ AssignComplaint
    \/ DeleteComplaint

SpecComplaintGuards == Init /\ [][NextComplaintGuards]_vars

\* The update permission as the specification states it: admin, or manager
\* of the complaint's department, or the user whose linked employee is the
\* complaint's assignee.
ClaimedComplaintUpdate(p, c) ==
    \/ p.role = "admin"
    \/ p.role = "manager" /\ p.department_id = c.department_involved
    \/ p.employee_id # NULL /\ p.employee_id = c.assigned_to

\* C6: update_complaint and update_complaint_status are permitted exactly
\* for the admin, the manager of the complaint's department and the
\* assignee's user; every other caller gets 403 and the row stays as it was.
C6_UpdateGuardAsClaimed ==
    [][(/\ resp'.op \in {"update_complaint", "update_complaint_status"}
        /\ resp'.status # InactiveStatus
        /\ complaints[resp'.target].present)
       => LET p == resp'.principal
              c == complaints[resp'.target]
          IN /\ ComplaintUpdateAllowed(p, c) <=> ClaimedComplaintUpdate(p, c)
             /\ ~ClaimedComplaintUpdate(p, c)
                   => resp'.status = 403 /\ complaints' = complaints]_vars

\* C7: whoever may delete a complaint may also update it: a delete that
\* removes the row is only performed for a principal who passes the update
\* guard on that row.
C7_DeleteImpliesUpdate ==
    [][(resp'.op = "delete_complaint" /\ resp'.status = 200)
       => ComplaintUpdateAllowed(resp'.principal, complaints[resp'.target])]_vars

\* ----------------------------------- SpecPreorders: who sees a pre-order
ListPreorders ==
    \E uid \in Stored(users) :
        get_preorders(uid, 0, MaxLimit, NoPreorderFilter, "desc")

FetchPreorder ==
    \E uid \in Stored(users), oid \in PreorderIds : get_preorder(uid, oid)

CreatePreorder ==
    \E uid \in Stored(users), dept \in NullableDept, assignee \in NullableEmp :
        create_preorder(uid, dept, NULL, assignee, "pending")

UpdatePreorder ==
    \E uid \in Stored(users), oid \in PreorderIds,
       u \in {[NoPreorderUpdate EXCEPT !.target_department = 2],
              [NoPreorderUpdate EXCEPT !.status = "completed"]} :
        update_preorder(uid, oid, u)

UpdatePreorderStatus ==
    \E uid \in Stored(users), oid \in PreorderIds,
       st \in PreorderStatuses \cup {"<missing>"} :
        update_preorder_status(uid, oid, st)

AssignPreorder ==
    \E uid \in Stored(users), oid \in PreorderIds, given \in BOOLEAN,
       assignee \in NullableEmp :
        assign_preorder(uid, oid, given, IF given THEN assignee ELSE NULL)

DeletePreorder ==
    \E uid \in Stored(users), oid \in PreorderIds : delete_preorder(uid, oid)

NextPreorders ==
    \/ ListPreorders
    \/ FetchPreorder
    \/ CreatePreorder
    \/ UpdatePreorder
    \/ UpdatePreorderStatus
    \/ AssignPreorder
    \/ DeletePreorder

SpecPreorders == Init /\ [][NextPreorders]_vars

\* C3: a pre-order is fetched by id exactly when the pre-order list selects
\* it for the same principal; otherwise the fetch answers 403.
C3_PreorderFetchMatchesList ==
    (/\ resp.op = "get_preorder"
     /\ resp.status # InactiveStatus
     /\ preorders[resp.target].present)
    => IF PreorderListFilter(resp.principal, preorders[resp.target])
       THEN resp.status = 200 /\ resp.body.row = preorders[resp.target]
       ELSE resp.status = 403

\* ------------------------------- SpecUsers: accounts, login and activation
Login ==
    \E uid \in UserIds, pw \in {1, 2} : login_for_access_token(uid, pw)

Logout == logout

CurrentUserInfo == \E uid \in Stored(users) : get_current_user_info(uid)

ListUsers ==
    \E uid \in Stored(users),
       f \in {DefaultUserFilter, [DefaultUserFilter EXCEPT !.include_inactive = TRUE]} :
        get_users(uid, 0, MaxLimit, f, "asc")

GetUser == \E uid \in Stored(users), user_id \in UserIds : get_user(uid, user_id)

ActivateUser ==
    \E uid \in Stored(users), user_id \in UserIds : activate_user(uid, user_id)

DeactivateUser ==
    \E uid \in Stored(users), user_id \in UserIds : deactivate_user(uid, user_id)

SubmitComplaint ==
    \E uid \in Stored(users) : create_complaint(uid, 1, "medium", FALSE, NULL, "open")

RemoveComplaint ==
    \E uid \in Stored(users), cid \in ComplaintIds : delete_complaint(uid, cid)

NextUsers ==
    \/ Login
    \/ Logout
    \/ CurrentUserInfo
    \/ ListUsers
    \/ GetUser
    \/ ActivateUser
    \/ DeactivateUser
    \/ SubmitComplaint
    \/ RemoveComplaint

SpecUsers == Init /\ [][NextUsers]_vars

\* C4: no response body carries a password hash, whether it holds one user
\* row (detail, activation result, current-user info) or a list of them.
C4_NoPasswordHashInResponse ==
    /\ resp.body.kind \in {"user", "me"}
          => "password_hash" \notin DOMAIN resp.body.user
    /\ (resp.op = "get_users" /\ resp.status = 200)
          => \A k \in 1..Len(resp.body.items) :
                "password_hash" \notin DOMAIN resp.body.items[k]

\* The operations that resolve their caller through get_current_active_user.
PrincipalOps ==
    {"get_current_user_info", "get_users", "get_user", "activate_user",
     "deactivate_user", "create_complaint", "delete_complaint"}

\* C5 as stated: a request made with the token of an inactive user is
\* answered 403 Forbidden and leaves every table as it was.
C5_InactiveForbidden ==
    [][(resp'.op \in PrincipalOps /\ ~users[resp'.uid].is_active)
       => /\ resp'.status = 403
          /\ UNCHANGED <<users, employees, complaints, preorders, announcements,
                         departments, backoffice, records>>]_vars

\* C5: a request that resolves its caller from the token of an inactive
\* user is answered 400 ("Inactive user") and leaves every table as it was,
\* so a deactivated user gets nothing else until reactivated.
C5_InactiveRejected ==
    [][(resp'.op \in PrincipalOps /\ ~users[resp'.uid].is_active)
       => /\ resp'.status = InactiveStatus
          /\ UNCHANGED <<users, employees, complaints, preorders, announcements,
                         departments, backoffice, records>>]_vars

\* A deactivated user's attempt to file a complaint has been turned away.
C5_Witness ==
    /\ resp.op = "create_complaint"
    /\ resp.status = InactiveStatus
    /\ ~users[resp.uid].is_active
    /\ Stored(complaints) = {}

\* --------------------- SpecAnnouncements: which announcements a caller gets
\* The seeded admin and one manager or staff account of department 1 or 2.
ListUserRows ==
    [present : {TRUE}, role : {"manager", "staff"}, department_id : DeptIds,
     employee_id : {NULL}, is_active : {TRUE}, password_hash : {Hash(2)}]

InitLists ==
    /\ \E u \in ListUserRows : users = (1 :> AdminUser) @@ (2 :> u)
    /\ employees = SeedEmployees
    /\ complaints = [i \in ComplaintIds |-> NoComplaint]
    /\ preorders = [i \in PreorderIds |-> NoPreorder]
    /\ announcements = [i \in AnnouncementIds |-> NoAnnouncement]
    /\ departments = SeedDepartments
    /\ now = 1
    /\ resp = NoResponse
    /\ InitBackoffice

PostAnnouncement ==
    \E uid \in Stored(users), dept \in {NULL, 1},
       roles \in {NullRoles, RoleList({}), RoleList({"staff"})},
       expires \in {NULL, MaxTime} :
        create_announcement(uid, dept, roles, expires, TRUE)

DeleteAnnouncement ==
    \E uid \in Stored(users), aid \in AnnouncementIds : delete_announcement(uid, aid)

ReadAnnouncements ==
    \E uid \in Stored(users), w \in {<<0, MaxLimit>>, <<1, 1>>} :
        get_announcements(uid, w[1], w[2], NoAnnouncementFilter, "asc")

NextAnnouncements ==
    \/ PostAnnouncement
    \/ DeleteAnnouncement
    \/ ReadAnnouncements
    \/ Tick

SpecAnnouncements == InitLists /\ [][NextAnnouncements]_vars

\* The visibility of announcement a to principal p at time t as the
\* specification states it.
ClaimedAnnouncementVisible(p, a, t) ==
    /\ a.expires_at = NULL \/ a.expires_at > t
    /\ \/ a.target_department = NULL
       \/ a.target_department = p.department_id
       \/ p.role = "admin"
    /\ a.target_roles.is_null \/ p.role \in a.target_roles.roles

\* The same with an empty target_roles list read as "every role".
AnnouncementVisibleOrUntargeted(p, a, t) ==
    /\ a.expires_at = NULL \/ a.expires_at > t
    /\ \/ a.target_department = NULL
       \/ a.target_department = p.department_id
       \/ p.role = "admin"
    /\ \/ a.target_roles.is_null
       \/ a.target_roles.roles = {}
       \/ p.role \in a.target_roles.roles

\* A get_announcements answer without caller filters whose page holds every
\* stored announcement.
FullAnnouncementList ==
    /\ resp'.op = "get_announcements"
    /\ resp' # resp
    /\ resp'.status = 200
    /\ resp'.body.filter = NoAnnouncementFilter
    /\ resp'.body.offset = 0
    /\ Cardinality(Stored(announcements)) <= resp'.body.limit

\* C8 as stated: an announcement is listed for p exactly when it is not
\* expired, targets no department or p's (or p is admin), and its
\* target_roles is null or contains p's role.
C8_ListedIffClaimed ==
    [][FullAnnouncementList
       => \A i \in Stored(announcements) :
             i \in SeqToSet(resp'.body.items)
                <=> ClaimedAnnouncementVisible(resp'.principal, announcements[i], now)]_vars

\* C8: an announcement is listed for p exactly when it is not expired,
\* targets no department or p's (or p is admin), and its target_roles is
\* null, empty, or contains p's role.
C8_ListedIffVisible ==
    [][FullAnnouncementList
       => \A i \in Stored(announcements) :
             i \in SeqToSet(resp'.body.items)
                <=> AnnouncementVisibleOrUntargeted(resp'.principal, announcements[i], now)]_vars

\* A non-admin caller got announcement 1, whose target_roles is the empty
\* list, and not announcement 2, which is stored too.
C8_Witness ==
    /\ resp.op = "get_announcements"
    /\ resp.status = 200
    /\ resp.principal.role # "admin"
    /\ resp.body.items = <<1>>
    /\ Stored(announcements) = {1, 2}
    /\ announcements[1].target_roles = RoleList({})

\* C9: the total of an announcement list counts the announcements that pass
\* every filter the returned items passed: the caller's filters, the expiry
\* test and the caller's role and department restrictions.
C9_TotalCountsFilteredRows ==
    [][(resp'.op = "get_announcements" /\ resp' # resp /\ resp'.status = 200)
       => resp'.body.total =
             Cardinality({i \in Stored(announcements) :
                 /\ AnnouncementCallerFilter(announcements[i], resp'.body.filter)
                 /\ NotExpired(announcements[i], now)
                 /\ AnnouncementRelevant(resp'.principal, announcements[i])})]_vars

\* ----------------------------------- SpecLists: the pagination envelope
ListDepartments ==
    \E uid \in Stored(users), skip \in 0..MaxSkip, limit \in 0..MaxLimit,
       is_active \in {"null", "true"} :
        get_departments(uid, skip, limit, is_active, "asc")

UpdateDepartment ==
    \E uid \in Stored(users), department_id \in DeptIds, is_active \in BOOLEAN :
        update_department(uid, department_id, departments[department_id].name,
                          departments[department_id].department_code, is_active)

PostNotice ==
    \E uid \in Stored(users), n \in {<<1, NULL>>, <<NULL, MaxTime>>} :
        create_announcement(uid, n[1], NullRoles, n[2], TRUE)

PageAnnouncements ==
    \E uid \in Stored(users), skip \in 0..MaxSkip, limit \in 0..MaxLimit :
        get_announcements(uid, skip, limit, NoAnnouncementFilter, "desc")

NextLists ==
    \/ ListDepartments
    \/ UpdateDepartment
    \/ PostNotice
    \/ PageAnnouncements
    \/ Tick

SpecLists == InitLists /\ [][NextLists]_vars

\* C10: a list answer never holds more items than its limit, its has_more
\* is (offset + limit) < total, and an offset at or past the total gives an
\* empty page without has_more.
C10_PaginationEnvelope ==
    (resp.status = 200 /\ resp.body.kind = "list")
    => LET b == resp.body
       IN /\ Len(b.items) <= b.limit
          /\ b.has_more <=> (b.offset + b.limit) < b.total
          /\ b.offset >= b.total => b.items = <<>> /\ ~b.has_more

\* Two departments are stored and the page asked for starts after them.
C10_Witness ==
    /\ resp.op = "get_departments"
    /\ resp.status = 200
    /\ resp.body.total = 2
    /\ resp.body.offset = 2
    /\ resp.body.limit = 1
    /\ resp.body.items = <<>>
    /\ ~resp.body.has_more

\* ------------------ SpecTimestamps: status changes and their timestamps
\* Tasks, complaints and pre-orders are created and have their status moved
\* to and from the terminal value by every handler that writes the status
\* column.
AddTask ==
    \E uid \in Stored(users), st \in {"pending", "completed"} :
        create_task(uid, NULL, NULL, NULL, NULL, st)

PutTask ==
    \E uid \in Stored(users), tid \in TaskIds, st \in {"pending", "completed"} :
        update_task(uid, tid, [NoTaskUpdate EXCEPT !.status = st])

PatchTaskStatus ==
    \E uid \in Stored(users), tid \in TaskIds,
       st \in {"pending", "completed", "<missing>"} :
        update_task_status(uid, tid, st)

AddComplaint ==
    \E uid \in Stored(users) : create_complaint(uid, NULL, "medium", FALSE, NULL, "open")

PutComplaint ==
    \E uid \in Stored(users), cid \in ComplaintIds, st \in {"open", "resolved"} :
        update_complaint(uid, cid, [NoUpdate EXCEPT !.status = st])

PatchComplaintStatus ==
    \E uid \in Stored(users), cid \in ComplaintIds, st \in {"open", "resolved"} :
        update_complaint_status(uid, cid, st)

AddPreorder ==
    \E uid \in Stored(users) : create_preorder(uid, NULL, NULL, NULL, "pending")

PutPreorder ==
    \E uid \in Stored(users), oid \in PreorderIds, st \in PreorderStatuses :
        update_preorder(uid, oid, [NoPreorderUpdate EXCEPT !.status = st])

PatchPreorderStatus ==
    \E uid \in Stored(users), oid \in PreorderIds, st \in PreorderStatuses :
        update_preorder_status(uid, oid, st)

NextTimestamps ==
    \/ AddTask
    \/ PutTask
    \/ PatchTaskStatus
    \/ AddComplaint
    \/ PutComplaint
    \/ PatchComplaintStatus
    \/ AddPreorder
    \/ PutPreorder
    \/ PatchPreorderStatus

SpecTimestamps == InitLists /\ [][NextTimestamps]_vars

\* Row `after` replaces row `before` of the same table, the status moving to
\* the terminal value.
Enters(before, after, terminal) ==
    /\ before.present /\ after.present
    /\ before.status # terminal /\ after.status = terminal

\* Row `after` replaces row `before`, the status moving off the terminal value.
Leaves(before, after, terminal) ==
    /\ before.present /\ after.present
    /\ before.status = terminal /\ after.status # terminal

\* C11: for tasks, complaints and pre-orders, a request that moves the status
\* to the terminal value leaves the paired timestamp non-null, and a request
\* that moves the status off the terminal value leaves the paired timestamp
\* null.
C11_TimestampFollowsStatus ==
    [][/\ \A i \in TaskIds :
            /\ Enters(tasks[i], tasks'[i], "completed") => tasks'[i].completed_at # NULL
            /\ Leaves(tasks[i], tasks'[i], "completed") => tasks'[i].completed_at = NULL
       /\ \A i \in ComplaintIds :
            /\ Enters(complaints[i], complaints'[i], "resolved")
                   => complaints'[i].resolved_at # NULL
            /\ Leaves(complaints[i], complaints'[i], "resolved")
                   => complaints'[i].resolved_at = NULL
       /\ \A i \in PreorderIds :
            /\ Enters(preorders[i], preorders'[i], "completed")
                   => preorders'[i].completed_at # NULL
            /\ Leaves(preorders[i], preorders'[i], "completed")
                   => preorders'[i].completed_at = NULL]_vars

\* ------------------- SpecRepeat: the terminal status written a second time
\* SpecTimestamps with the clock running between the requests.
NextRepeat ==
    \/ NextTimestamps
    \/ Tick

SpecRepeat == InitLists /\ [][NextRepeat]_vars

\* Row `after` replaces a row that already was in the terminal status with
\* its timestamp set, and is in the terminal status too.
Stays(before, after, terminal, stamp) ==
    /\ before.present /\ after.present
    /\ before.status = terminal /\ after.status = terminal
    /\ stamp # NULL

\* C12: once a task, complaint or pre-order is in its terminal status with
\* the timestamp set, a request that writes the same terminal status again
\* leaves the timestamp as it was.
C12_TimestampSetOnce ==
    [][/\ \A i \in TaskIds :
            Stays(tasks[i], tasks'[i], "completed", tasks[i].completed_at)
                => tasks'[i].completed_at = tasks[i].completed_at
       /\ \A i \in ComplaintIds :
            Stays(complaints[i], complaints'[i], "resolved", complaints[i].resolved_at)
                => complaints'[i].resolved_at = complaints[i].resolved_at
       /\ \A i \in PreorderIds :
            Stays(preorders[i], preorders'[i], "completed", preorders[i].completed_at)
                => preorders'[i].completed_at = preorders[i].completed_at]_vars

\* ------------------------------ SpecDepartments: deleting a department
\* The admin creates rows that point at department 2 in every dependent
\* table while the department exists (a request naming a department that is gone
\* violates the foreign key and stores nothing); employees and departments
\* are deleted.
DeletableDept == 2

DeptExists == departments[DeletableDept].present

FileTask ==
    /\ DeptExists
    /\ \E uid \in {1} :
           create_task(uid, NULL, NULL, DeletableDept, DeletableDept, "pending")

ReportComplaint ==
    /\ DeptExists
    /\ \E uid \in {1} :
           create_complaint(uid, DeletableDept, "medium", FALSE, NULL, "open")

OrderAhead ==
    /\ DeptExists
    /\ \E uid \in {1} :
           create_preorder(uid, DeletableDept, NULL, NULL, "pending")

RequestInventory ==
    /\ DeptExists
    /\ \E uid \in {1} :
           create_inventory_request(uid, "pending", DeletableDept, DeletableDept)

AddEquipment ==
    /\ DeptExists
    /\ \E uid \in {1} : create_equipment(uid, DeletableDept, "refrigeration")

AddMonitoringPoint ==
    /\ DeptExists
    /\ \E uid \in {1} : create_monitoring_point(uid, DeletableDept, 1, 2)

Announce ==
    /\ DeptExists
    /\ \E uid \in {1} :
           create_announcement(uid, DeletableDept, NullRoles, NULL, TRUE)

DeleteEmployee ==
    \E uid \in Stored(users), eid \in EmpIds : delete_employee(uid, eid)

DeleteDepartment ==
    \E uid \in Stored(users), d \in DeptIds : delete_department(uid, d)

NextDepartments ==
    \/ FileTask
    \/ ReportComplaint
    \/ OrderAhead
    \/ RequestInventory
    \/ AddEquipment
    \/ AddMonitoringPoint
    \/ Announce
    \/ DeleteEmployee
    \/ DeleteDepartment

\* The seeded admin and one staff account of department 1 or 2.
InitDepartments == InitLists /\ users[2].role = "staff"

SpecDepartments == InitDepartments /\ [][NextDepartments]_vars

\* Some row of a dependent table holds department d.
DepartmentReferenced(d) ==
    \/ \E i \in Stored(tasks) :
          tasks[i].department_id = d \/ tasks[i].assigned_to_department = d
    \/ \E i \in Stored(complaints) : complaints[i].department_involved = d
    \/ \E i \in Stored(preorders) : preorders[i].target_department = d
    \/ \E i \in Stored(inventory_requests) :
          \/ inventory_requests[i].requesting_department = d
          \/ inventory_requests[i].fulfilling_department = d
    \/ \E i \in Stored(equipment) : equipment[i].department_id = d
    \/ \E i \in Stored(temperature_monitoring_points) :
          temperature_monitoring_points[i].department_id = d
    \/ \E i \in Stored(announcements) : announcements[i].target_department = d

\* Some employee or user belongs to department d.
DepartmentStaffed(d) ==
    \/ \E e \in Stored(employees) : employees[e].department_id = d
    \/ \E u \in Stored(users) : users[u].department_id = d

\* C13: an active admin's request to delete an existing department that an
\* employee or a user belongs to is answered 400 and changes no row of any
\* table; for a department nobody belongs to it is answered 200, the
\* department is gone, and no row of tasks, complaints, pre-orders, inventory
\* requests, equipment, monitoring points or announcements holds its id.
C13_DeleteDepartment ==
    [][\A d \in DeptIds :
         (/\ resp'.op = "delete_department" /\ resp'.target = d
          /\ resp'.principal.role = "admin" /\ resp'.principal.is_active
          /\ departments[d].present)
         => IF DepartmentStaffed(d)
            THEN /\ resp'.status = 400
                 /\ UNCHANGED <<users, employees, complaints, preorders, announcements,
                                departments, backoffice, records>>
            ELSE /\ resp'.status = 200
                 /\ ~departments'[d].present
                 /\ ~DepartmentReferenced(d)']_vars

\* A department has been deleted while a task, a complaint and a piece of
\* equipment that pointed at it are still stored.
C13_Witness ==
    /\ resp.op = "delete_department" /\ resp.status = 200
    /\ tasks[1].present /\ complaints[1].present /\ equipment[1].present
    /\ announcements[1].present

\* A deletion has been refused because the department still has staff, with
\* rows of dependent tables pointing at it.
C13_WitnessRefused ==
    /\ resp.op = "delete_department" /\ resp.status = 400
    /\ resp.target = DeletableDept /\ DepartmentReferenced(DeletableDept)

\* ----------------------------- SpecUserLinks: users linked to employees
\* Only the account of create_admin_user.py exists; users are created and
\* relinked through both routers, two updates may overlap.
InitUserLinks ==
    /\ users = (1 :> AdminUser) @@ (2 :> NoUser)
    /\ employees = SeedEmployees
    /\ complaints = [i \in ComplaintIds |-> NoComplaint]
    /\ preorders = [i \in PreorderIds |-> NoPreorder]
    /\ announcements = [i \in AnnouncementIds |-> NoAnnouncement]
    /\ departments = SeedDepartments
    /\ now = 1
    /\ resp = NoResponse
    /\ InitBackoffice

CreateUser ==
    \E uid \in Stored(users), e \in NullableEmp :
        users_create_user(uid, "staff", e, NULL)

CreateAuthUser ==
    \E uid \in Stored(users), e \in NullableEmp :
        create_user(uid, "staff", e, NULL)

\* A body that names a role repeats the role the user has.
UpdateUser ==
    \E uid \in Stored(users), user_id \in UserIds, names_role \in BOOLEAN,
       e \in NullableEmp :
        users_update_user(uid, user_id, names_role, users[user_id].role, "<missing>", e)

\* The body carries an employee_id, 0 included.
BeginUpdateAuthUser ==
    \E slot \in RequestSlots, uid \in Stored(users), user_id \in UserIds,
       e \in NullableEmp :
        update_user_check(slot, uid, user_id, FALSE, "", "<missing>", TRUE, e)

EndUpdateAuthUser ==
    \E slot \in RequestSlots : update_user_write(slot)

NextUserLinks ==
    \/ CreateUser
    \/ CreateAuthUser
    \/ UpdateUser
    \/ BeginUpdateAuthUser
    \/ EndUpdateAuthUser

SpecUserLinks == InitUserLinks /\ [][NextUserLinks]_vars

\* C14: no two user rows hold the same non-null employee_id.
C14_OneUserPerEmployee ==
    \A u, v \in Stored(users) :
        (u # v /\ users[u].employee_id # NULL)
            => users[u].employee_id # users[v].employee_id

\* ------------------------- SpecTemperature: readings and their violations
MaxTemp == 3

\* Monitoring points are set up with limits of 1 or 2 degrees, in either
\* order, and readings of 0..MaxTemp degrees are recorded.
AddPoint ==
    \E uid \in Stored(users), min_temp \in {1, 2}, max_temp \in {1, 2} :
        create_monitoring_point(uid, NULL, min_temp, max_temp)

RecordTemperature ==
    \E uid \in Stored(users), point_id \in PointIds, temp \in 0..MaxTemp :
        create_temperature_log(uid, point_id, temp)

NextTemperature ==
    \/ AddPoint
    \/ RecordTemperature

SpecTemperature == InitLists /\ [][NextTemperature]_vars

\* The violation rows the step has added.
NewViolations ==
    {v \in ViolationIds :
        temperature_violations'[v].present /\ ~temperature_violations[v].present}

\* C15: a stored reading below min_temp_fahrenheit or above
\* max_temp_fahrenheit of its monitoring point adds exactly one violation
\* row, which names the new log; a reading within the limits, the limits
\* included, adds none; no other violation row changes.
C15_ViolationIffOutOfRange ==
    [][\A l \in LogIds :
         (/\ resp'.op = "create_temperature_log" /\ resp'.status = 200
          /\ resp'.target = l)
         => LET log == temperature_logs'[l]
                point == temperature_monitoring_points[log.monitoring_point_id]
                outside ==
                    \/ log.recorded_temp_fahrenheit < point.min_temp_fahrenheit
                    \/ log.recorded_temp_fahrenheit > point.max_temp_fahrenheit
            IN /\ ~temperature_logs[l].present /\ log.present
               /\ \A v \in ViolationIds \ NewViolations :
                      temperature_violations'[v] = temperature_violations[v]
               /\ IF outside
                  THEN /\ Cardinality(NewViolations) = 1
                       /\ \A v \in NewViolations :
                              temperature_violations'[v].log_id = l
                  ELSE NewViolations = {}]_vars

\* A reading exactly on a limit has been stored without a violation, next to
\* an earlier reading that has one.
C15_Witness ==
    /\ resp.op = "create_temperature_log" /\ resp.status = 200
    /\ resp.body.row.recorded_temp_fahrenheit
           = temperature_monitoring_points[1].max_temp_fahrenheit
    /\ temperature_monitoring_points[1].min_temp_fahrenheit
           < temperature_monitoring_points[1].max_temp_fahrenheit
    /\ \E v \in Stored(temperature_violations) :
           temperature_violations[v].log_id # resp.target
    /\ ~\E v \in Stored(temperature_violations) :
           temperature_violations[v].log_id = resp.target

\* ---------------- SpecAutoAssign: new complaints and pre-orders find a lead
\* Complaints and pre-orders are created for a department, or for none,
\* without an assignee in the body, and deleted again; employees are deleted.
NewComplaint ==
    \E uid \in Stored(users), dept \in NullableDept, sev \in Severities :
        create_complaint(uid, dept, sev, FALSE, NULL, "open")

NewPreorder ==
    \E uid \in Stored(users), dept \in NullableDept :
        create_preorder(uid, dept, NULL, NULL, "pending")

NextAutoAssign ==
    \/ NewComplaint
    \/ NewPreorder
    \/ DeleteComplaint
    \/ DeletePreorder
    \/ DeleteEmployee

SpecAutoAssign == Init /\ [][NextAutoAssign]_vars

\* The active employees of department dept whose position holds "manager"
\* or "lead".
Leads(dept) ==
    {e \in EmpIds : /\ employees[e].present
                    /\ employees[e].department_id = dept
                    /\ employees[e].status = "active"
                    /\ employees[e].position \in {"department manager", "team lead"}}

\* The stored row has the assignee the claim describes.
AssignedAsClaimed(row) ==
    row.assigned_to \in (IF Leads(row.dept) # {} THEN Leads(row.dept) ELSE {NULL})

\* On its own: the row a creation stores for a department has one of the
\* department's leads as assignee, or NULL when the department has none.
StoredAssigneeAsClaimed ==
    [][/\ \A i \in ComplaintIds :
            (/\ resp'.op = "create_complaint" /\ resp'.target = i
             /\ complaints'[i].department_involved # NULL)
            => AssignedAsClaimed([assigned_to |-> complaints'[i].assigned_to,
                                  dept |-> complaints'[i].department_involved])
       /\ \A i \in PreorderIds :
            (/\ resp'.op = "create_preorder" /\ resp'.target = i
             /\ preorders'[i].target_department # NULL)
            => AssignedAsClaimed([assigned_to |-> preorders'[i].assigned_to,
                                  dept |-> preorders'[i].target_department])]_vars

\* C16: a complaint or pre-order created for a department without an
\* assignee in the body is stored with one of the department's active
\* managers or leads as assigned_to when there is one and with NULL when
\* there is none, and the creation is answered 200.
C16_AutoAssigned ==
    [][/\ \A i \in ComplaintIds :
            (/\ resp'.op = "create_complaint" /\ resp'.target = i
             /\ complaints'[i].department_involved # NULL)
            => /\ AssignedAsClaimed([assigned_to |-> complaints'[i].assigned_to,
                                     dept |-> complaints'[i].department_involved])
               /\ resp'.status = 200
       /\ \A i \in PreorderIds :
            (/\ resp'.op = "create_preorder" /\ resp'.target = i
             /\ preorders'[i].target_department # NULL)
            => /\ AssignedAsClaimed([assigned_to |-> preorders'[i].assigned_to,
                                     dept |-> preorders'[i].target_department])
               /\ resp'.status = 200]_vars

\* The complaint handlers that end with a call of get_complaint.
ComplaintMutations ==
    {"create_complaint", "update_complaint", "update_complaint_status", "assign_complaint"}

\* C17: a create_complaint, update_complaint, update_complaint_status or
\* assign_complaint request that has changed the complaints table is
\* answered 200 with the stored complaint.
C17_MutationReturnsComplaint ==
    [][(resp'.op \in ComplaintMutations /\ complaints' # complaints)
       => /\ resp'.status = 200
          /\ resp'.body.row = complaints'[resp'.target]]_vars

\* ------------------------- SpecInventory: inventory requests and their log
\* The seeded admin and a staff account linked to employee 1; the staff
\* account works on the requests, so every audit row names its employee.
InitInventory ==
    /\ Init
    /\ users[2] = [present |-> TRUE, role |-> "staff", department_id |-> NULL,
                   employee_id |-> 1, is_active |-> TRUE, password_hash |-> Hash(2)]

AddInventoryRequest ==
    \E uid \in Stored(users) : create_inventory_request(uid, "pending", NULL, NULL)

PutInventoryRequest ==
    \E uid \in {2}, rid \in InventoryRequestIds, st \in InventoryStatuses :
        update_inventory_request(uid, rid, [NoInventoryUpdate EXCEPT !.status = st])

PatchInventoryStatus ==
    \E uid \in {2}, rid \in InventoryRequestIds,
       st \in InventoryStatuses \cup {"<missing>"} :
        update_inventory_request_status(uid, rid, st, "")

LogInventoryUpdate ==
    \E uid \in {2}, rid \in InventoryRequestIds,
       st \in InventoryStatuses \cup {"<missing>"} :
        add_inventory_request_update(uid, rid, st, "")

DeleteInventoryRequest ==
    \E uid \in Stored(users), rid \in InventoryRequestIds :
        delete_inventory_request(uid, rid)

\* User 2 links itself to the other employee.
RelinkUser ==
    \E e \in EmpIds : users_update_user(2, 2, FALSE, "staff", "<missing>", e)

NextInventory ==
    \/ AddInventoryRequest
    \/ PutInventoryRequest
    \/ PatchInventoryStatus
    \/ LogInventoryUpdate
    \/ DeleteInventoryRequest
    \/ RelinkUser
    \/ DeleteEmployee

SpecInventory == InitInventory /\ [][NextInventory]_vars

\* On its own, the inventory part of C11: a request that moves an inventory
\* request to fulfilled leaves fulfilled_date non-null, one that moves it off
\* fulfilled leaves fulfilled_date null.
InventoryTimestampFollowsStatus ==
    [][\A i \in InventoryRequestIds :
         /\ Enters(inventory_requests[i], inventory_requests'[i], "fulfilled")
                => inventory_requests'[i].fulfilled_date # NULL
         /\ Leaves(inventory_requests[i], inventory_requests'[i], "fulfilled")
                => inventory_requests'[i].fulfilled_date = NULL]_vars

\* The audit rows the step has added.
NewUpdates ==
    {i \in InventoryUpdateIds :
        inventory_request_updates'[i].present /\ ~inventory_request_updates[i].present}

\* C18: a stored creation of an inventory request and an applied status
\* update of one add exactly one audit row, which names the request, the
\* status before and after, and the caller's employee.
C18_OneAuditRowPerChange ==
    [][\A rid \in InventoryRequestIds :
         (/\ resp'.op \in {"create_inventory_request", "update_inventory_request_status"}
          /\ resp'.status = 200 /\ resp'.target = rid)
         => /\ Cardinality(NewUpdates) = 1
            /\ \A i \in NewUpdates :
                  /\ inventory_request_updates'[i].request_id = rid
                  /\ inventory_request_updates'[i].new_status
                         = inventory_requests'[rid].status
                  /\ inventory_request_updates'[i].updated_by
                         = resp'.principal.employee_id]_vars

\* Audit row i is left as it was, or goes together with its request and
\* every other audit row of that request.
KeptOrGoneWithRequest(i) ==
    \/ inventory_request_updates'[i] = inventory_request_updates[i]
    \/ /\ ~inventory_request_updates'[i].present
       /\ \A rid \in InventoryRequestIds :
             inventory_request_updates[i].request_id = rid
             => /\ inventory_requests[rid].present
                /\ ~inventory_requests'[rid].present
                /\ \A j \in UpdatesOf(inventory_request_updates, rid) :
                       ~inventory_request_updates'[j].present

\* C19 as stated: no request changes a stored audit row, and an audit row
\* goes only when its inventory request is deleted, together with every
\* other audit row of that request.
C19_AppendOnly ==
    [][\A i \in Stored(inventory_request_updates) : KeptOrGoneWithRequest(i)]_vars

\* Audit row i is as it was but for its updated_by, now NULL, and the
\* employee it named is gone.
OnlyUpdaterCleared(i) ==
    /\ inventory_request_updates'[i] =
           [inventory_request_updates[i] EXCEPT !.updated_by = NULL]
    /\ \A e \in EmpIds :
          inventory_request_updates[i].updated_by = e
          => employees[e].present /\ ~employees'[e].present

\* C19: the audit log is append-only but for the employee link: a stored
\* audit row keeps its request, statuses and message, its updated_by changes
\* only to NULL and only when the employee it names is deleted, and the row
\* goes only when its inventory request is deleted, together with every
\* other audit row of that request.
C19_AppendOnlyButUpdater ==
    [][\A i \in Stored(inventory_request_updates) :
         KeptOrGoneWithRequest(i) \/ OnlyUpdaterCleared(i)]_vars

\* An employee has been deleted while two audit rows are stored: the one
\* that named the employee has lost its updated_by, the other still names
\* the employee the account moved to.
C19_Witness ==
    /\ resp.op = "delete_employee" /\ resp.status = 200 /\ resp.target = 1
    /\ \E i, j \in Stored(inventory_request_updates) :
          /\ inventory_request_updates[i].updated_by = NULL
          /\ inventory_request_updates[j].updated_by = 2

\* ------------------------------- SpecReads: marking announcements as read
\* POST /announcements/{id}/read, up to the select that looks for an earlier
\* read of the caller's employee: the request that found none waits in a slot
\* with the row it is about to insert.
mark_announcement_as_read_check(slot, uid, aid) ==
    /\ inflight[slot] = Idle
    /\ IF ~IsActive(uid) THEN Refused("mark_announcement_as_read", uid, aid)
       ELSE IF ~announcements[aid].present
            THEN Reply(Response("mark_announcement_as_read", uid, aid, 404, NoBody))
       ELSE IF \E i \in Stored(announcement_reads) :
                    /\ announcement_reads[i].announcement_id = aid
                    /\ announcement_reads[i].employee_id = users[uid].employee_id
            THEN Reply(Response("mark_announcement_as_read", uid, aid, 200,
                                [kind |-> "message"]))
       ELSE /\ inflight' = [inflight EXCEPT ![slot] =
                    [op |-> "mark_announcement_as_read", uid |-> uid,
                     announcement_id |-> aid,
                     employee_id |-> users[uid].employee_id,
                     department_id |-> users[uid].department_id]]
            /\ UNCHANGED <<resp, tasks, inventory_requests, inventory_request_updates,
                           announcement_reads, temperature_monitoring_points,
                           temperature_logs, temperature_violations, equipment>>
            /\ CoreUnchanged

\* The insert and the commit of the request waiting in the slot. The insert
\* fails on the foreign key when the announcement is gone by then.
mark_announcement_as_read_write(slot) ==
    /\ inflight[slot] # Idle
    /\ inflight[slot].op = "mark_announcement_as_read"
    /\ LET r == inflight[slot]
       IN IF ~announcements[r.announcement_id].present
          THEN /\ resp' = Response("mark_announcement_as_read", r.uid,
                                   r.announcement_id, 500, NoBody)
               /\ UNCHANGED announcement_reads
          ELSE /\ HasRoom(announcement_reads)
               /\ announcement_reads' =
                      [announcement_reads EXCEPT ![NextId(announcement_reads)] =
                          [present |-> TRUE, announcement_id |-> r.announcement_id,
                           employee_id |-> r.employee_id,
                           department_id |-> r.department_id]]
               /\ resp' = Response("mark_announcement_as_read", r.uid,
                                   r.announcement_id, 200, [kind |-> "message"])
    /\ inflight' = [inflight EXCEPT ![slot] = Idle]
    /\ CoreUnchanged
    /\ UNCHANGED <<tasks, inventory_requests, inventory_request_updates,
                   temperature_monitoring_points, temperature_logs,
                   temperature_violations, equipment>>

\* The seeded admin and a staff account linked to employee 1.
InitReads ==
    /\ Init
    /\ users[2] = [present |-> TRUE, role |-> "staff", department_id |-> NULL,
                   employee_id |-> 1, is_active |-> TRUE, password_hash |-> Hash(2)]

PublishAnnouncement ==
    \E uid \in {1} : create_announcement(uid, NULL, NullRoles, NULL, TRUE)

RemoveAnnouncement ==
    \E uid \in {1}, aid \in AnnouncementIds : delete_announcement(uid, aid)

BeginMarkRead ==
    \E slot \in RequestSlots, uid \in Stored(users), aid \in AnnouncementIds :
        mark_announcement_as_read_check(slot, uid, aid)

EndMarkRead ==
    \E slot \in RequestSlots : mark_announcement_as_read_write(slot)

NextReads ==
    \/ PublishAnnouncement
    \/ RemoveAnnouncement
    \/ BeginMarkRead
    \/ EndMarkRead

SpecReads == InitReads /\ [][NextReads]_vars

\* C20: whatever the interleaving of mark-as-read requests, two stored rows
\* of announcement_reads never name the same announcement and the same
\* employee. Rows of accounts without an employee are left out: only a pair
\* with an employee counts against the claim.
C20_OneReadPerPair ==
    \A i, j \in Stored(announcement_reads) :
        (/\ announcement_reads[i].employee_id # NULL
         /\ announcement_reads[i].announcement_id = announcement_reads[j].announcement_id
         /\ announcement_reads[i].employee_id = announcement_reads[j].employee_id)
            => i = j

\* Deleting an announcement leaves no read of it behind.
NoOrphanRead ==
    \A i \in Stored(announcement_reads) :
        announcements[announcement_reads[i].announcement_id].present

\* ---------------------------------------------------------------- employees
EmployeeStatuses == {"active", "inactive"}

\* A body of PUT /employees/{id} that sets nothing.
NoEmployeeUpdate == [status |-> "<missing>", position |-> "<missing>",
                     department_given |-> FALSE, department_id |-> NULL]

\* PUT /employees/{id}. The handler body is wrapped in try/except Exception,
\* which also catches the HTTPException of the missing employee and the
\* foreign-key error of an unknown department: both are answered 500.
update_employee(uid, employee_id, u) ==
    IF ~IsActive(uid) THEN Refused("update_employee", uid, employee_id)
    ELSE IF ~ManagerOrAdmin(Principal(uid))
         THEN Reply(Response("update_employee", uid, employee_id, 403, NoBody))
    ELSE IF ~employees[employee_id].present
         THEN Reply(Response("update_employee", uid, employee_id, 500, NoBody))
    ELSE IF /\ u.department_given /\ u.department_id # NULL
            /\ ~departments[u.department_id].present
         THEN Reply(Response("update_employee", uid, employee_id, 500, NoBody))
    ELSE /\ employees' = [employees EXCEPT
                ![employee_id].status =
                    IF u.status = "<missing>" THEN @ ELSE u.status,
                ![employee_id].position =
                    IF u.position = "<missing>" THEN @ ELSE u.position,
                ![employee_id].department_id =
                    IF u.department_given THEN u.department_id ELSE @]
         /\ resp' = Response("update_employee", uid, employee_id, 200,
                             [kind |-> "employee", row |-> employees'[employee_id]])
         /\ UNCHANGED <<users, complaints, preorders, announcements, departments, now,
                        backoffice, records>>

\* ----------------------------------------------------------------- training
\* date.today() + timedelta(days=30)
RequirementDays == 30

\* Everything but the training tables.
TrainingFrame ==
    UNCHANGED <<users, employees, complaints, preorders, announcements, departments,
                now, backoffice, reminders, equipment_maintenance>>

\* The employees selected by the OR of the department and position
\* conditions of create_training_type.
ApplicableEmployees(depts, positions) ==
    {e \in Stored(employees) :
        \/ \E d \in depts : SqlEq(employees[e].department_id, d)
        \/ employees[e].position \in positions}

\* The ids of the rows a table has room for, lowest first.
FreeIds(table) == AscSeq({i \in DOMAIN table : ~table[i].present})

\* The requirement rows inserted for the employees of E, one each, in id
\* order.
WithRequirements(table, E, type_id, due) ==
    LET es == AscSeq(E)
        free == FreeIds(table)
    IN [i \in DOMAIN table |->
           IF \E k \in 1..Len(es) : free[k] = i
           THEN LET k == CHOOSE k \in 1..Len(es) : free[k] = i
                IN [present |-> TRUE, employee_id |-> es[k],
                    training_type_id |-> type_id, required_by_date |-> due,
                    status |-> "pending", completed_training_record_id |-> NULL]
           ELSE table[i]]

\* POST /training/types
create_training_type(uid, mandatory, depts, positions, validity) ==
    IF ~IsActive(uid) THEN Refused("create_training_type", uid, NULL)
    ELSE IF ~ManagerOrAdmin(Principal(uid))
         THEN Reply(Response("create_training_type", uid, NULL, 403, NoBody))
    ELSE LET type_id == NextId(training_types)
             row == [present |-> TRUE, is_mandatory |-> mandatory,
                     required_for_departments |-> depts,
                     required_for_positions |-> positions,
                     validity_period_months |-> validity]
             fans == mandatory /\ (depts # {} \/ positions # {})
             E == IF fans THEN ApplicableEmployees(depts, positions) ELSE {}
         IN /\ HasRoom(training_types)
            /\ Cardinality(E) <= Len(FreeIds(training_requirements))
            /\ training_types' = [training_types EXCEPT ![type_id] = row]
            /\ training_requirements' =
                   WithRequirements(training_requirements, E, type_id,
                                    now + RequirementDays)
            /\ resp' = Response("create_training_type", uid, type_id, 200,
                                [kind |-> "training_type", row |-> row])
            /\ UNCHANGED employee_training_records
            /\ TrainingFrame

\* ----------------------- SpecTraining: mandatory types and their requirements
\* The seeded admin and a manager; employees change status, position and
\* department, and training types are created.
InitTraining ==
    /\ Init
    /\ users[2] = [present |-> TRUE, role |-> "manager", department_id |-> 1,
                   employee_id |-> 1, is_active |-> TRUE, password_hash |-> Hash(2)]

EditEmployee ==
    \E uid \in {2}, e \in EmpIds, st \in EmployeeStatuses \cup {"<missing>"},
       dept \in {NULL, 1} :
        update_employee(uid, e, [NoEmployeeUpdate EXCEPT !.status = st,
                                    !.department_given = (dept # NULL),
                                    !.department_id = dept])

AddTrainingType ==
    \E uid \in {1}, mandatory \in BOOLEAN, depts \in SUBSET {1},
       positions \in SUBSET {"clerk"} :
        create_training_type(uid, mandatory, depts, positions, NULL)

NextTraining ==
    \/ EditEmployee
    \/ AddTrainingType

SpecTraining == InitTraining /\ [][NextTraining]_vars

\* The requirement rows a step inserts for employee e and training type t.
NewRequirements(e, t) ==
    {i \in RequirementIds :
        /\ ~training_requirements[i].present
        /\ training_requirements'[i].present
        /\ training_requirements'[i].employee_id = e
        /\ training_requirements'[i].training_type_id = t}

\* Employee e is active and in one of the listed departments or positions.
MatchesAsClaimed(e, depts, positions) ==
    /\ employees[e].present
    /\ employees[e].status = "active"
    /\ \/ employees[e].department_id \in depts
       \/ employees[e].position \in positions

\* C21: a successful creation of a mandatory training type scoped to
\* departments or positions inserts, for every employee, exactly one pending
\* requirement due 30 days later when the employee is active and matches,
\* and none otherwise.
C21_RequirementPerActiveMatch ==
    [][\A t \in TrainingTypeIds :
         (/\ resp'.op = "create_training_type" /\ resp'.status = 200
          /\ resp'.target = t
          /\ training_types'[t].is_mandatory
          /\ \/ training_types'[t].required_for_departments # {}
             \/ training_types'[t].required_for_positions # {})
         => \A e \in EmpIds :
              IF MatchesAsClaimed(e, training_types'[t].required_for_departments,
                                  training_types'[t].required_for_positions)
              THEN /\ Cardinality(NewRequirements(e, t)) = 1
                   /\ \A i \in NewRequirements(e, t) :
                        /\ training_requirements'[i].status = "pending"
                        /\ training_requirements'[i].required_by_date
                               = now + RequirementDays
              ELSE NewRequirements(e, t) = {}]_vars

\* The fan-out as the handler does it: one pending requirement for every
\* stored employee that matches, whatever the employee's status.
CreatesForEveryMatch ==
    [][\A t \in TrainingTypeIds :
         (/\ resp'.op = "create_training_type" /\ resp'.status = 200
          /\ resp'.target = t
          /\ training_types'[t].is_mandatory)
         => \A e \in EmpIds :
              Cardinality(NewRequirements(e, t)) =
                  IF /\ employees[e].present
                     /\ \/ employees[e].department_id \in
                               training_types'[t].required_for_departments
                        \/ employees[e].position \in
                               training_types'[t].required_for_positions
                  THEN 1 ELSE 0]_vars


\* ------------------------------------------------------- training records
\* month + validity_months, carried into the year, with the day capped at 28:
\* date(year + (month + m - 1) // 12, ((month + m - 1) % 12) + 1, min(day, 28))
MonthsLater(d, m) ==
    [year |-> d.year + ((d.month + m - 1) \div 12),
     month |-> ((d.month + m - 1) % 12) + 1,
     day |-> Min(d.day, 28)]

\* The pending requirements of every employee for training type t.
PendingRequirements_AnyEmployee(e, t) ==
    {i \in Stored(training_requirements) :
        /\ training_requirements[i].training_type_id = t
        /\ training_requirements[i].status = "pending"}

\* SELECT ... WHERE employee_id = :e AND training_type_id = :t AND
\* status = 'pending'
PendingRequirements(e, t) ==
    {i \in Stored(training_requirements) :
        /\ training_requirements[i].employee_id = e
        /\ training_requirements[i].training_type_id = t
        /\ training_requirements[i].status = "pending"}

\* POST /training/records. expiration is NoDate when the body gives none.
\* validity_months is bound only when the body gives no expiration date and
\* the type has a validity period; the date computed from it afterwards is
\* outside the if, so every other request stops there with an unbound local
\* (500) before anything is written.
create_training_record(uid, employee_id, training_type_id, completed_date, expiration, status) ==
    IF ~IsActive(uid)
    THEN Refused("create_training_record", uid, NULL)
    ELSE IF ~employees[employee_id].present
         THEN Reply(Response("create_training_record", uid, NULL, 404, NoBody))
    ELSE IF ~training_types[training_type_id].present
         THEN Reply(Response("create_training_record", uid, NULL, 404, NoBody))
    ELSE IF \/ expiration # NoDate
            \/ training_types[training_type_id].validity_period_months = NULL
         THEN Reply(Response("create_training_record", uid, NULL, 500, NoBody))
    ELSE LET record_id == NextId(employee_training_records)
             row == [present |-> TRUE, employee_id |-> employee_id,
                     training_type_id |-> training_type_id,
                     completed_date |-> completed_date,
                     expiration_date |->
                         MonthsLater(completed_date,
                             training_types[training_type_id].validity_period_months),
                     status |-> status]
             closed == PendingRequirements(employee_id, training_type_id)
         IN /\ HasRoom(employee_training_records)
            /\ employee_training_records' =
                   [employee_training_records EXCEPT ![record_id] = row]
            /\ training_requirements' =
                   [i \in RequirementIds |->
                       IF i \in closed
                       THEN [training_requirements[i] EXCEPT
                                !.status = "completed",
                                !.completed_training_record_id = record_id]
                       ELSE training_requirements[i]]
            /\ resp' = Response("create_training_record", uid, record_id, 200,
                                [kind |-> "training_record", row |-> row,
                                 employee_id |-> employee_id,
                                 training_type_id |-> training_type_id,
                                 expiration |-> expiration])
            /\ UNCHANGED training_types
            /\ TrainingFrame

\* ------------------- SpecTrainingRecords: records and the requirements they close
\* The validity periods a type is created with, the dates a training is
\* completed on and the expiration date a body may give.
ValidityPeriods == {NULL, 2, 12}
CompletedDates == {[year |-> 2025, month |-> 1, day |-> 31],
                   [year |-> 2025, month |-> 11, day |-> 15]}
GivenExpirations == {NoDate, [year |-> 2026, month |-> 6, day |-> 30]}

AddMandatoryType ==
    \E uid \in {1}, depts \in {{1}, {1, 2}}, validity \in ValidityPeriods :
        create_training_type(uid, TRUE, depts, {}, validity)

RecordTraining ==
    \E uid \in {2}, e \in EmpIds, t \in TrainingTypeIds,
       completed \in CompletedDates, expiration \in GivenExpirations :
        create_training_record(uid, e, t, completed, expiration, "completed")

NextTrainingRecords ==
    \/ AddMandatoryType
    \/ RecordTraining

SpecTrainingRecords == InitTraining /\ [][NextTrainingRecords]_vars

\* C22: when a completed training record has been created for employee e and
\* type t, every requirement of (e, t) that was pending is completed and
\* points at the new record, none of (e, t) is left pending, and every other
\* requirement is as it was.
C22_RecordClosesRequirements ==
    [][\A r \in TrainingRecordIds :
         (/\ resp'.op = "create_training_record" /\ resp'.status = 200
          /\ resp'.target = r
          /\ employee_training_records'[r].status = "completed")
         => LET e == employee_training_records'[r].employee_id
                t == employee_training_records'[r].training_type_id
            IN \A i \in RequirementIds :
                 IF /\ training_requirements[i].present
                    /\ training_requirements[i].employee_id = e
                    /\ training_requirements[i].training_type_id = t
                 THEN /\ training_requirements'[i].status # "pending"
                      /\ training_requirements[i].status = "pending"
                           => /\ training_requirements'[i].status = "completed"
                              /\ training_requirements'[i].completed_training_record_id = r
                              /\ training_requirements'[i].employee_id = e
                              /\ training_requirements'[i].training_type_id = t
                      /\ training_requirements[i].status # "pending"
                           => training_requirements'[i] = training_requirements[i]
                 ELSE training_requirements'[i] = training_requirements[i]]_vars

\* A record has closed the requirement of its employee while the other
\* employee's requirement for the same type is still pending.
C22_Witness ==
    /\ resp.op = "create_training_record" /\ resp.status = 200
    /\ \E i, j \in Stored(training_requirements) :
         /\ training_requirements[i].status = "completed"
         /\ training_requirements[i].completed_training_record_id = resp.target
         /\ training_requirements[i].employee_id = resp.body.employee_id
         /\ training_requirements[j].status = "pending"
         /\ training_requirements[j].training_type_id = resp.body.training_type_id
         /\ training_requirements[j].employee_id # resp.body.employee_id

\* The expiration date the claim gives a new record.
ExpirationAsClaimed(expiration, completed, validity) ==
    IF expiration # NoDate THEN expiration
    ELSE IF validity # NULL THEN MonthsLater(completed, validity)
    ELSE NoDate

\* C26: creating a training record for an existing employee and type
\* succeeds and stores the given expiration date, or else the completed date
\* moved on by the type's validity months, or else no expiration date.
C26_ExpirationStored ==
    [][(resp'.op = "create_training_record" /\ resp'.status # 404)
       => /\ resp'.status = 200
          /\ \A r \in TrainingRecordIds :
               resp'.target = r
               => employee_training_records'[r].expiration_date =
                      ExpirationAsClaimed(resp'.body.expiration,
                          employee_training_records'[r].completed_date,
                          training_types[employee_training_records'[r].training_type_id]
                              .validity_period_months)]_vars

\* What the handler does store: whenever a record is created, its
\* expiration date is the completed date moved on by the validity months of
\* its type.
ExpirationWhenCreated ==
    [][\A r \in TrainingRecordIds :
         (resp'.op = "create_training_record" /\ resp'.status = 200
          /\ resp'.target = r)
         => /\ resp'.body.expiration = NoDate
            /\ training_types[employee_training_records'[r].training_type_id]
                   .validity_period_months # NULL
            /\ employee_training_records'[r].expiration_date =
                   ExpirationAsClaimed(NoDate,
                       employee_training_records'[r].completed_date,
                       training_types[employee_training_records'[r].training_type_id]
                           .validity_period_months)]_vars


\* ---------------------------------------------------------------- reminders
\* Everything but the reminders table.
ReminderFrame ==
    UNCHANGED <<users, employees, complaints, preorders, announcements, departments,
                now, backoffice, training_types, training_requirements,
                employee_training_records, equipment_maintenance>>

\* SELECT ... WHERE id = :reminder_id AND user_id = :caller
OwnReminder(uid, rid) == reminders[rid].present /\ reminders[rid].user_id = uid

\* GET /reminders/{id}
get_reminder(uid, rid) ==
    IF ~IsActive(uid) THEN Refused("get_reminder", uid, rid)
    ELSE IF ~OwnReminder(uid, rid)
         THEN Reply(Response("get_reminder", uid, rid, 404, NoBody))
    ELSE Reply(Response("get_reminder", uid, rid, 200,
                        [kind |-> "reminder", row |-> reminders[rid]]))

\* POST /reminders/
create_reminder(uid, is_completed) ==
    IF ~IsActive(uid) THEN Refused("create_reminder", uid, NULL)
    ELSE /\ HasRoom(reminders)
         /\ reminders' = [reminders EXCEPT ![NextId(reminders)] =
                [present |-> TRUE, user_id |-> uid, is_completed |-> is_completed]]
         /\ resp' = Response("create_reminder", uid, NextId(reminders), 200,
                             [kind |-> "reminder",
                              row |-> reminders'[NextId(reminders)]])
         /\ ReminderFrame

\* PUT /reminders/{id}; is_completed is "<missing>" when the body leaves it
\* out. The 404 is raised inside try/except Exception, which answers it 500.
update_reminder(uid, rid, is_completed) ==
    IF ~IsActive(uid) THEN Refused("update_reminder", uid, rid)
    ELSE IF ~OwnReminder(uid, rid)
         THEN Reply(Response("update_reminder", uid, rid, 500, NoBody))
    ELSE /\ reminders' = [reminders EXCEPT ![rid].is_completed =
                IF is_completed = "<missing>" THEN @ ELSE is_completed = "true"]
         /\ resp' = Response("update_reminder", uid, rid, 200,
                             [kind |-> "reminder", row |-> reminders'[rid]])
         /\ ReminderFrame

\* PATCH /reminders/{id}/complete, with the same try/except.
complete_reminder(uid, rid) ==
    IF ~IsActive(uid) THEN Refused("complete_reminder", uid, rid)
    ELSE IF ~OwnReminder(uid, rid)
         THEN Reply(Response("complete_reminder", uid, rid, 500, NoBody))
    ELSE /\ reminders' = [reminders EXCEPT ![rid].is_completed = TRUE]
         /\ resp' = Response("complete_reminder", uid, rid, 200,
                             [kind |-> "reminder", row |-> reminders'[rid]])
         /\ ReminderFrame

\* DELETE /reminders/{id}, with the same try/except.
delete_reminder(uid, rid) ==
    IF ~IsActive(uid) THEN Refused("delete_reminder", uid, rid)
    ELSE IF ~OwnReminder(uid, rid)
         THEN Reply(Response("delete_reminder", uid, rid, 500, NoBody))
    ELSE /\ reminders' = [reminders EXCEPT ![rid] = NoReminder]
         /\ resp' = Response("delete_reminder", uid, rid, 200, [kind |-> "message"])
         /\ ReminderFrame

\* --------------------------- SpecNotFound: requests for a record that is not there
\* The seeded admin and a staff account; both keep reminders, the admin
\* edits and deletes employees, and tasks and inventory requests are looked
\* up by id.
AddReminder ==
    \E uid \in Stored(users) : create_reminder(uid, FALSE)

FetchReminder ==
    \E uid \in Stored(users), rid \in ReminderIds : get_reminder(uid, rid)

PutReminder ==
    \E uid \in Stored(users), rid \in ReminderIds,
       is_completed \in {"<missing>", "true", "false"} :
        update_reminder(uid, rid, is_completed)

CompleteReminder ==
    \E uid \in Stored(users), rid \in ReminderIds : complete_reminder(uid, rid)

DeleteReminder ==
    \E uid \in Stored(users), rid \in ReminderIds : delete_reminder(uid, rid)

PutEmployee ==
    \E uid \in {1}, e \in EmpIds, st \in EmployeeStatuses :
        update_employee(uid, e, [NoEmployeeUpdate EXCEPT !.status = st])

RemoveEmployee ==
    \E uid \in {1}, e \in EmpIds : delete_employee(uid, e)

FetchTask ==
    \E uid \in Stored(users), tid \in TaskIds : get_task(uid, tid)

FetchInventoryRequest ==
    \E uid \in Stored(users), rid \in InventoryRequestIds :
        get_inventory_request(uid, rid)

NextNotFound ==
    \/ AddReminder
    \/ FetchReminder
    \/ PutReminder
    \/ CompleteReminder
    \/ DeleteReminder
    \/ PutEmployee
    \/ RemoveEmployee
    \/ FetchTask
    \/ FetchInventoryRequest

SpecNotFound == InitReads /\ [][NextNotFound]_vars

ReminderRecordOps ==
    {"get_reminder", "update_reminder", "complete_reminder", "delete_reminder"}

EmployeeRecordOps == {"update_employee", "delete_employee"}

\* The id in the path of the request just answered names no record the
\* handler may work on.
Unresolved(r) ==
    \/ /\ r.op \in ReminderRecordOps
       /\ \A rid \in ReminderIds :
            r.target = rid
            => ~(reminders[rid].present /\ reminders[rid].user_id = r.uid)
    \/ /\ r.op \in EmployeeRecordOps
       /\ \A e \in EmpIds : r.target = e => ~employees[e].present
    \/ /\ r.op = "get_task"
       /\ \A tid \in TaskIds : r.target = tid => ~tasks[tid].present
    \/ /\ r.op = "get_inventory_request"
       /\ \A rid \in InventoryRequestIds :
            r.target = rid => ~inventory_requests[rid].present

\* C23: a read, update, completion or delete of one record whose id resolves
\* to nothing (for a reminder: to nothing owned by the caller), made by an
\* active caller whose role the handler admits, is answered 404 and changes
\* no table.
C23_UnresolvedIsNotFound ==
    [][(/\ resp' # resp
        /\ resp'.principal.is_active
        /\ resp'.op \in EmployeeRecordOps => resp'.principal.role = "admin"
        /\ Unresolved(resp'))
       => /\ resp'.status = 404
          /\ UNCHANGED <<users, employees, complaints, preorders, announcements,
                         departments, backoffice, records>>]_vars

\* The handlers that raise the 404 outside a catch-all do answer it.
UnresolvedOutsideTryIsNotFound ==
    [][(/\ resp' # resp
        /\ resp'.principal.is_active
        /\ resp'.op \in {"get_reminder", "delete_employee", "get_task",
                         "get_inventory_request"}
        /\ resp'.op \in EmployeeRecordOps => resp'.principal.role = "admin"
        /\ Unresolved(resp'))
       => /\ resp'.status = 404
          /\ UNCHANGED <<users, employees, complaints, preorders, announcements,
                         departments, backoffice, records>>]_vars


\* ------------------------------ SpecProfiles: fetching one user's profile
\* The seeded admin and one account of any role; profiles are fetched
\* through both routers and the admin switches accounts off and on.
FetchProfile ==
    \E uid \in Stored(users), user_id \in UserIds : users_get_user(uid, user_id)

NextProfiles ==
    \/ GetUser
    \/ FetchProfile
    \/ ActivateUser
    \/ DeactivateUser

SpecProfiles == Init /\ [][NextProfiles]_vars

\* C24: an active caller who is neither admin nor manager gets the profile
\* of a user only when that user is the caller, and then gets its own row;
\* a request for any other user is answered 403 without a body.
C24_OwnProfileOnly ==
    (/\ resp.op \in {"get_user", "users_get_user"}
     /\ resp.principal.is_active
     /\ resp.principal.role \notin {"admin", "manager"})
    => IF resp.target = resp.uid
       THEN resp.status = 200 /\ resp.body.user.id = resp.uid
       ELSE resp.status = 403 /\ resp.body = NoBody

\* A staff account has asked GET /users/{id} for the admin's profile and was
\* turned away.
C24_Witness ==
    /\ resp.op = "users_get_user"
    /\ resp.principal.role = "staff" /\ resp.principal.is_active
    /\ resp.target # resp.uid
    /\ users[resp.target].present
    /\ resp.status = 403

\* A staff account has fetched its own profile.
C24_WitnessOwn ==
    /\ resp.op = "users_get_user"
    /\ resp.principal.role = "staff" /\ resp.principal.is_active
    /\ resp.target = resp.uid
    /\ resp.status = 200


\* ----------------------- SpecDepartmentNames: department names and codes
\* The seeded admin and a staff account. The admin moves employees out of
\* a department, deletes departments, creates them and edits them.
DepartmentNames == {"Bakery", "Produce", "Meat"}
DepartmentCodes == {"", "BAK", "MET"}

MoveEmployee ==
    \E uid \in {1}, e \in EmpIds, dept \in NullableDept :
        update_employee(uid, e, [NoEmployeeUpdate EXCEPT !.department_given = TRUE,
                                    !.department_id = dept])

DropDepartment ==
    \E uid \in {1}, d \in DeptIds : delete_department(uid, d)

AddDepartment ==
    \E uid \in {1}, name \in DepartmentNames, code \in DepartmentCodes :
        create_department(uid, name, code, TRUE)

EditDepartment ==
    \E uid \in {1}, d \in DeptIds, name \in DepartmentNames,
       code \in DepartmentCodes :
        update_department(uid, d, name, code, TRUE)

NextDepartmentNames ==
    \/ MoveEmployee
    \/ DropDepartment
    \/ AddDepartment
    \/ EditDepartment

SpecDepartmentNames == InitReads /\ [][NextDepartmentNames]_vars

\* C25: no two stored departments have the same name, and no two have the
\* same non-null code.
C25_NamesAndCodesUnique ==
    \A d, e \in Stored(departments) :
        d # e => /\ departments[d].name # departments[e].name
                 /\ departments[d].department_code # ""
                      => departments[d].department_code # departments[e].department_code

\* The part the database keeps: non-null codes are unique.
CodesUnique ==
    \A d, e \in Stored(departments) :
        (d # e /\ departments[d].department_code # "")
            => departments[d].department_code # departments[e].department_code

\* The part creation keeps: a department is never created under a name or a
\* code another department has.
CreationKeepsUnique ==
    [][\A d \in DeptIds :
         (resp'.op = "create_department" /\ resp'.status = 200 /\ resp'.target = d)
         => \A e \in Stored(departments) \ {d} :
              /\ departments'[d].name # departments[e].name
              /\ departments'[d].department_code # ""
                   => departments'[d].department_code # departments[e].department_code]_vars


\* ---------------------------- SpecSeverity: how severe a violation is
\* Limits around a cooler's range and readings up to 15 degrees from the
\* middle of every pair of limits, the middle falling on a whole or on a
\* half degree.
PointLimits == {32, 33, 40}
Readings == {21, 22, 26, 27, 36, 46, 47, 51}

SetUpPoint ==
    \E uid \in {1}, min_temp \in PointLimits, max_temp \in PointLimits :
        create_monitoring_point(uid, NULL, min_temp, max_temp)

TakeReading ==
    \E uid \in {2}, point_id \in PointIds, temp \in Readings :
        create_temperature_log(uid, point_id, temp)

NextSeverity ==
    \/ SetUpPoint
    \/ TakeReading

SpecSeverity == InitReads /\ [][NextSeverity]_vars

\* Twice the distance of a reading from the middle of the limits of the
\* monitoring point of violation v.
TwiceDeviation(v) ==
    LET point == temperature_monitoring_points[temperature_violations[v].monitoring_point_id]
        log == temperature_logs[temperature_violations[v].log_id]
        twice == 2 * log.recorded_temp_fahrenheit
                     - (point.min_temp_fahrenheit + point.max_temp_fahrenheit)
    IN IF twice < 0 THEN 0 - twice ELSE twice

\* C27: every violation is 'high' when its reading is more than 10 degrees
\* from the middle (min + max) / 2 of the limits of its monitoring point and
\* 'medium' otherwise, 10 degrees exactly included.
C27_SeverityByDeviation ==
    \A v \in Stored(temperature_violations) :
        temperature_violations[v].severity =
            IF TwiceDeviation(v) > 20 THEN "high" ELSE "medium"

\* A reading exactly 10 degrees from the middle has been stored with a
\* violation of medium severity, next to one of high severity for a reading
\* one degree further out.
C27_Witness ==
    \E v, w \in Stored(temperature_violations) :
        /\ TwiceDeviation(v) = 20
        /\ temperature_violations[v].severity = "medium"
        /\ TwiceDeviation(w) = 22
        /\ temperature_violations[w].severity = "high"


\* ------------------ SpecInventoryRace: status changes that run side by side
\* The first select of the three status-changing inventory handlers: the
\* request that found its row waits in a slot with the status it read, the
\* status it was sent ("<missing>" when the body has none) and the employee
\* of its caller.
InventorySelected(slot, op, uid, rid, st) ==
    /\ inflight' = [inflight EXCEPT ![slot] =
           [op |-> op, uid |-> uid, request_id |-> rid,
            old_status |-> inventory_requests[rid].status, new_status |-> st,
            employee_id |-> users[uid].employee_id]]
    /\ UNCHANGED <<resp, tasks, inventory_requests, inventory_request_updates,
                   announcement_reads, temperature_monitoring_points,
                   temperature_logs, temperature_violations, equipment>>
    /\ CoreUnchanged

\* The audit row a waiting request inserts.
AuditRow(r, new_status) ==
    [present |-> TRUE, request_id |-> r.request_id, updated_by |-> r.employee_id,
     old_status |-> r.old_status, new_status |-> new_status,
     update_message |-> "Status updated"]

\* Everything a write step of an inventory handler leaves alone.
InventoryWriteFrame ==
    /\ CoreUnchanged
    /\ UNCHANGED <<tasks, announcement_reads, temperature_monitoring_points,
                   temperature_logs, temperature_violations, equipment>>

\* PUT /inventory/requests/{id}, up to the select of the existing row.
update_inventory_request_check(slot, uid, rid, st) ==
    /\ inflight[slot] = Idle
    /\ IF ~IsActive(uid) THEN Refused("update_inventory_request", uid, rid)
       ELSE IF ~inventory_requests[rid].present
            THEN Reply(Response("update_inventory_request", uid, rid, 404, NoBody))
       ELSE InventorySelected(slot, "update_inventory_request", uid, rid, st)

\* The audit insert (when a status was sent that differs from the one read),
\* the update and the commit of the waiting PUT.
update_inventory_request_write(slot) ==
    /\ inflight[slot] # Idle
    /\ inflight[slot].op = "update_inventory_request"
    /\ LET r == inflight[slot]
           given == r.new_status # "<missing>"
           changing == given /\ r.new_status # r.old_status
       IN /\ inventory_requests[r.request_id].present
          /\ changing => HasRoom(inventory_request_updates)
          /\ inventory_request_updates' =
                 IF changing
                 THEN [inventory_request_updates EXCEPT
                          ![NextId(inventory_request_updates)] = AuditRow(r, r.new_status)]
                 ELSE inventory_request_updates
          /\ inventory_requests' = [inventory_requests EXCEPT
                 ![r.request_id].status = IF given THEN r.new_status ELSE @,
                 ![r.request_id].fulfilled_date =
                     IF changing /\ r.new_status = "fulfilled" THEN now ELSE @]
          /\ resp' = InventoryFetch("update_inventory_request", r.uid, r.request_id,
                                    inventory_requests')
    /\ inflight' = [inflight EXCEPT ![slot] = Idle]
    /\ InventoryWriteFrame

\* PATCH /inventory/requests/{id}/status, up to the status validation.
update_inventory_request_status_check(slot, uid, rid, st) ==
    /\ inflight[slot] = Idle
    /\ IF ~IsActive(uid) THEN Refused("update_inventory_request_status", uid, rid)
       ELSE IF ~inventory_requests[rid].present
            THEN Reply(Response("update_inventory_request_status", uid, rid, 404, NoBody))
       ELSE IF st = "<missing>"
            THEN Reply(Response("update_inventory_request_status", uid, rid, 400, NoBody))
       ELSE InventorySelected(slot, "update_inventory_request_status", uid, rid, st)

\* The audit insert, the update and the commit of the waiting PATCH.
update_inventory_request_status_write(slot) ==
    /\ inflight[slot] # Idle
    /\ inflight[slot].op = "update_inventory_request_status"
    /\ LET r == inflight[slot]
       IN /\ inventory_requests[r.request_id].present
          /\ HasRoom(inventory_request_updates)
          /\ inventory_request_updates' =
                 [inventory_request_updates EXCEPT
                     ![NextId(inventory_request_updates)] = AuditRow(r, r.new_status)]
          /\ inventory_requests' = [inventory_requests EXCEPT
                 ![r.request_id].status = r.new_status,
                 ![r.request_id].fulfilled_date =
                     IF r.new_status = "fulfilled" THEN now ELSE @]
          /\ resp' = InventoryFetch("update_inventory_request_status", r.uid,
                                    r.request_id, inventory_requests')
    /\ inflight' = [inflight EXCEPT ![slot] = Idle]
    /\ InventoryWriteFrame

\* POST /inventory/requests/{id}/updates, up to the select of the request.
add_inventory_request_update_check(slot, uid, rid, st) ==
    /\ inflight[slot] = Idle
    /\ IF ~IsActive(uid) THEN Refused("add_inventory_request_update", uid, rid)
       ELSE IF ~inventory_requests[rid].present
            THEN Reply(Response("add_inventory_request_update", uid, rid, 404, NoBody))
       ELSE InventorySelected(slot, "add_inventory_request_update", uid, rid, st)

\* The audit insert and, when a status was sent that differs from the one
\* read, the update of the request.
add_inventory_request_update_write(slot) ==
    /\ inflight[slot] # Idle
    /\ inflight[slot].op = "add_inventory_request_update"
    /\ LET r == inflight[slot]
           new_status == IF r.new_status = "<missing>" THEN r.old_status
                         ELSE r.new_status
           update_id == NextId(inventory_request_updates)
       IN /\ inventory_requests[r.request_id].present
          /\ HasRoom(inventory_request_updates)
          /\ inventory_request_updates' =
                 [inventory_request_updates EXCEPT ![update_id] = AuditRow(r, new_status)]
          /\ inventory_requests' =
                 IF new_status # r.old_status
                 THEN [inventory_requests EXCEPT ![r.request_id].status = new_status]
                 ELSE inventory_requests
          /\ resp' = Response("add_inventory_request_update", r.uid, r.request_id, 200,
                              [kind |-> "inventory_request_update",
                               row |-> inventory_request_updates'[update_id]])
    /\ inflight' = [inflight EXCEPT ![slot] = Idle]
    /\ InventoryWriteFrame

\* The staff account changes the status of the requests; up to two of its
\* requests are under way at a time.
BeginPutInventory ==
    \E slot \in RequestSlots, uid \in {2}, rid \in InventoryRequestIds,
       st \in InventoryStatuses \cup {"<missing>"} :
        update_inventory_request_check(slot, uid, rid, st)

EndPutInventory ==
    \E slot \in RequestSlots : update_inventory_request_write(slot)

BeginPatchInventory ==
    \E slot \in RequestSlots, uid \in {2}, rid \in InventoryRequestIds,
       st \in InventoryStatuses \cup {"<missing>"} :
        update_inventory_request_status_check(slot, uid, rid, st)

EndPatchInventory ==
    \E slot \in RequestSlots : update_inventory_request_status_write(slot)

BeginLogInventory ==
    \E slot \in RequestSlots, uid \in {2}, rid \in InventoryRequestIds,
       st \in InventoryStatuses \cup {"<missing>"} :
        add_inventory_request_update_check(slot, uid, rid, st)

EndLogInventory ==
    \E slot \in RequestSlots : add_inventory_request_update_write(slot)

NextInventoryRace ==
    \/ AddInventoryRequest
    \/ BeginPutInventory
    \/ EndPutInventory
    \/ BeginPatchInventory
    \/ EndPatchInventory
    \/ BeginLogInventory
    \/ EndLogInventory

SpecInventoryRace == InitInventory /\ [][NextInventoryRace]_vars

\* The audit rows of request rid, in the order of their insertion, form a
\* chain that ends at the current status of the request.
AuditChain(rid) ==
    LET rows == AscSeq(UpdatesOf(inventory_request_updates, rid))
    IN /\ \A k \in 1..(Len(rows) - 1) :
            inventory_request_updates[rows[k + 1]].old_status
                = inventory_request_updates[rows[k]].new_status
       /\ Len(rows) > 0
            => inventory_request_updates[rows[Len(rows)]].new_status
                   = inventory_requests[rid].status

\* C28: whenever no status-changing request is under way, the audit rows of
\* every inventory request form a chain: each row starts from the status the
\* row before it ended with, and the last row ends with the current status
\* of the request.
C28_AuditChain ==
    (\A slot \in RequestSlots : inflight[slot] = Idle)
        => \A rid \in Stored(inventory_requests) : AuditChain(rid)


\* --------------------- SpecRoles: who can change a role or an activation
\* Either account sends updates of either user row through both update
\* endpoints, one request after another; the bodies carry any role, any
\* is_active value, or neither.
PutUser ==
    /\ inflight[1] = Idle
    /\ \E uid \in UserIds, user_id \in UserIds, names_role \in BOOLEAN,
          role \in Roles, active \in ActiveKeys :
           users_update_user(uid, user_id, names_role, role, active, NULL)

BeginPutAuthUser ==
    \E uid \in UserIds, user_id \in UserIds, names_role \in BOOLEAN,
       role \in Roles, active \in ActiveKeys, given \in BOOLEAN :
        update_user_check(1, uid, user_id, names_role, role, active, given, 0)

EndPutAuthUser ==
    update_user_write(1)

NextRoles ==
    \/ PutUser
    \/ BeginPutAuthUser
    \/ EndPutAuthUser

SpecRoles == InitReads /\ [][NextRoles]_vars

UserUpdateOps == {"users_update_user", "update_user"}

\* C29: a step of either update_user handler that changes the role or the
\* is_active flag of any user row is the answer to a request whose principal
\* is an admin; a request of a non-admin principal changes neither, its own
\* included.
C29_OnlyAdminChangesRole ==
    [][\A u \in UserIds :
          (users'[u].role # users[u].role \/ users'[u].is_active # users[u].is_active)
              => /\ resp'.op \in UserUpdateOps
                 /\ resp'.principal.role = "admin"]_vars

\* A non-admin that sent a role or an is_active key for its own row was
\* answered 403.
C29_Witness ==
    /\ resp.op \in UserUpdateOps
    /\ resp.status = 403
    /\ resp.principal.role # "admin"
    /\ resp.target = resp.uid
    /\ users[resp.uid].role = resp.principal.role
    /\ users[resp.uid].is_active


\* ------------------------------------------- SpecMaintenance: maintenance
MaintenanceFrame ==
    UNCHANGED <<users, employees, complaints, preorders, announcements, departments,
                now, tasks, inventory_requests, inventory_request_updates,
                announcement_reads, temperature_monitoring_points, temperature_logs,
                temperature_violations, inflight, training_types,
                training_requirements, employee_training_records, reminders>>

IsLeapYear(y) == y % 4 = 0 /\ (y % 100 # 0 \/ y % 400 = 0)

DaysIn(y, m) ==
    IF m = 2 THEN (IF IsLeapYear(y) THEN 29 ELSE 28)
    ELSE IF m \in {4, 6, 9, 11} THEN 30 ELSE 31

\* The dates datetime.date accepts; date.replace raises ValueError for any
\* other combination of fields.
ValidDate(d) == d.month \in 1..12 /\ d.day \in 1..DaysIn(d.year, d.month)

RefrigerationMonths == 3
HeatingMonths == 6

\* The fields date.replace is called with after a regular maintenance of a
\* piece of equipment of the given type was completed on date d.
next_maintenance(equipment_type, d) ==
    IF equipment_type = "refrigeration"
    THEN [d EXCEPT !.month = d.month + RefrigerationMonths]
    ELSE IF equipment_type = "heating"
    THEN [d EXCEPT !.month = d.month + HeatingMonths]
    ELSE [d EXCEPT !.year = d.year + 1]

\* The equipment row after a maintenance of the given type was completed on
\* date d.
Maintained(e, maintenance_type, d) ==
    [e EXCEPT !.last_maintenance = d,
              !.next_maintenance_due =
                  IF maintenance_type = "regular"
                  THEN next_maintenance(e.equipment_type, d) ELSE @]

\* POST /equipment/maintenance. The maintenance row is inserted and committed
\* before the equipment is looked at; status is "scheduled" when the body has
\* none, completed_date is NoDate when the body has none. A ValueError of
\* date.replace is answered 500 and leaves the committed row in place.
create_maintenance_record(uid, equipment_id, maintenance_type, status, completed_date) ==
    IF ~IsActive(uid) THEN Refused("create_maintenance_record", uid, NULL)
    ELSE IF ~equipment[equipment_id].present
         THEN Reply(Response("create_maintenance_record", uid, NULL, 404, NoBody))
    ELSE LET maintenance_id == NextId(equipment_maintenance)
             completes == status = "completed" /\ completed_date # NoDate
             fails == /\ completes
                      /\ maintenance_type = "regular"
                      /\ ~ValidDate(next_maintenance(
                              equipment[equipment_id].equipment_type, completed_date))
         IN /\ HasRoom(equipment_maintenance)
            /\ equipment_maintenance' = [equipment_maintenance EXCEPT
                   ![maintenance_id] =
                       [present |-> TRUE, equipment_id |-> equipment_id,
                        maintenance_type |-> maintenance_type, status |-> status,
                        completed_date |-> completed_date]]
            /\ equipment' =
                   IF completes /\ ~fails
                   THEN [equipment EXCEPT ![equipment_id] =
                            Maintained(@, maintenance_type, completed_date)]
                   ELSE equipment
            /\ resp' = IF fails
                       THEN Response("create_maintenance_record", uid, maintenance_id,
                                     500, NoBody)
                       ELSE Response("create_maintenance_record", uid, maintenance_id,
                                     200, [kind |-> "maintenance",
                                           row |-> equipment_maintenance'[maintenance_id]])
            /\ MaintenanceFrame

\* PATCH /equipment/maintenance/{id}/status; today is the date the server
\* clock shows. The one commit comes last, so a ValueError of date.replace
\* (500) leaves both tables as they were.
update_maintenance_status(uid, maintenance_id, status, today) ==
    IF ~IsActive(uid) THEN Refused("update_maintenance_status", uid, maintenance_id)
    ELSE IF ~equipment_maintenance[maintenance_id].present
         THEN Reply(Response("update_maintenance_status", uid, maintenance_id, 404, NoBody))
    ELSE IF status = "<missing>"
         THEN Reply(Response("update_maintenance_status", uid, maintenance_id, 400, NoBody))
    ELSE LET existing_maintenance == equipment_maintenance[maintenance_id]
             equipment_id == existing_maintenance.equipment_id
             completes == status = "completed" /\ existing_maintenance.status # "completed"
             found == equipment_id # NULL /\ equipment[equipment_id].present
         IN IF /\ completes /\ found
               /\ existing_maintenance.maintenance_type = "regular"
               /\ ~ValidDate(next_maintenance(equipment[equipment_id].equipment_type,
                                              today))
            THEN Reply(Response("update_maintenance_status", uid, maintenance_id, 500,
                                NoBody))
            ELSE /\ equipment' =
                        IF completes /\ found
                        THEN [equipment EXCEPT ![equipment_id] =
                                 Maintained(@, existing_maintenance.maintenance_type, today)]
                        ELSE equipment
                 /\ equipment_maintenance' = [equipment_maintenance EXCEPT
                        ![maintenance_id].status = status,
                        ![maintenance_id].completed_date =
                            IF completes THEN today ELSE @]
                 /\ resp' = Response("update_maintenance_status", uid, maintenance_id, 200,
                                     [kind |-> "maintenance",
                                      row |-> equipment_maintenance'[maintenance_id]])
                 /\ MaintenanceFrame

\* Completion dates early and late in the year, at the end of a month and
\* on a leap day.
MaintenanceDates ==
    {[year |-> 2024, month |-> 2, day |-> 29],
     [year |-> 2024, month |-> 5, day |-> 31],
     [year |-> 2024, month |-> 8, day |-> 15],
     [year |-> 2024, month |-> 11, day |-> 15]}

EquipmentTypes == {"refrigeration", "heating", "oven"}

InstallEquipment ==
    \E uid \in {1}, t \in EquipmentTypes : create_equipment(uid, NULL, t)

AddMaintenance ==
    \E uid \in {2}, e \in EquipmentIds, t \in {"regular", "repair"},
       st \in {"scheduled", "completed"}, d \in MaintenanceDates \cup {NoDate} :
        create_maintenance_record(uid, e, t, st, d)

SetMaintenanceStatus ==
    \E uid \in {2}, m \in MaintenanceIds,
       st \in {"scheduled", "completed", "<missing>"}, today \in MaintenanceDates :
        update_maintenance_status(uid, m, st, today)

NextMaintenance ==
    \/ InstallEquipment
    \/ AddMaintenance
    \/ SetMaintenanceStatus

SpecMaintenance == InitReads /\ [][NextMaintenance]_vars

MaintenanceOps == {"create_maintenance_record", "update_maintenance_status"}

\* The date k months after d, on the last day of the month when the month
\* is too short.
CalendarMonthsLater(d, k) ==
    LET y == d.year + ((d.month + k - 1) \div 12)
        m == ((d.month + k - 1) % 12) + 1
    IN [year |-> y, month |-> m, day |-> Min(d.day, DaysIn(y, m))]

\* The next due date the specification gives for a completion on date d.
NextDueAsClaimed(equipment_type, d) ==
    IF equipment_type = "refrigeration" THEN CalendarMonthsLater(d, RefrigerationMonths)
    ELSE IF equipment_type = "heating" THEN CalendarMonthsLater(d, HeatingMonths)
    ELSE CalendarMonthsLater(d, 12)

\* Maintenance row m is regular and this step completed it: inserted as
\* completed with a date, or moved to completed.
CompletedByStep(m) ==
    /\ equipment_maintenance'[m].present
    /\ equipment_maintenance'[m].maintenance_type = "regular"
    /\ equipment_maintenance'[m].status = "completed"
    /\ equipment_maintenance'[m].completed_date # NoDate
    /\ ~(equipment_maintenance[m].present /\ equipment_maintenance[m].status = "completed")

\* C30: no maintenance request fails on the completion date (no 500), and a
\* step that completes a regular maintenance record sets the equipment's
\* last_maintenance to the completed date and its next_maintenance_due 3
\* months (refrigeration), 6 months (heating) or one year (any other type)
\* after it.
C30_CompletionSetsDates ==
    [][(resp'.op \in MaintenanceOps /\ resp' # resp)
          => /\ resp'.status # 500
             /\ \A m \in MaintenanceIds : \A e \in EquipmentIds :
                   (CompletedByStep(m) /\ equipment_maintenance'[m].equipment_id = e)
                       => /\ equipment'[e].last_maintenance
                                 = equipment_maintenance'[m].completed_date
                          /\ equipment'[e].next_maintenance_due
                                 = NextDueAsClaimed(equipment'[e].equipment_type,
                                       equipment_maintenance'[m].completed_date)]_vars

\* What the handlers do: a completion whose replaced date exists sets both
\* dates as the specification says; any other leaves the equipment alone.
CompletionWithinTheYear ==
    [][(resp'.op \in MaintenanceOps /\ resp' # resp)
          => /\ \A m \in MaintenanceIds : \A e \in EquipmentIds :
                   (/\ CompletedByStep(m)
                    /\ equipment_maintenance'[m].equipment_id = e
                    /\ resp'.status = 200)
                       => /\ equipment'[e].last_maintenance
                                 = equipment_maintenance'[m].completed_date
                          /\ equipment'[e].next_maintenance_due
                                 = NextDueAsClaimed(equipment'[e].equipment_type,
                                       equipment_maintenance'[m].completed_date)
             /\ resp'.status = 500 => equipment' = equipment]_vars

====
